---- MODULE Spec2Model ----
(***************************************************************************)
(* Oracle pool status page: page merger, epoch grouper, inclusion          *)
(* classifier and pagination driver of status-page/src/App.tsx, with the   *)
(* page service of status-page/src/services/datapointService.ts.           *)
(*                                                                         *)
(* Conventions.  An absent string (undefined / null) is Undefined, an      *)
(* absent number is the empty sequence None and a present one is <<n>>.    *)
(* A Map is a sequence in insertion order.  A comparator returns a         *)
(* number whose sign is all that Array.prototype.sort reads.               *)
(***************************************************************************)
EXTENDS Integers, Sequences, FiniteSets, Bags, TLC

Undefined == "undefined"
None == <<>>
Some(n) == <<n>>

\* Number.MIN_SAFE_INTEGER, the fallback of a missing globalIndex; scaled to
\* the integers of the checker, below every index a box can carry.
MIN_SAFE_INTEGER == -2147483647

Compare(x, y) == IF x > y THEN 1 ELSE IF x < y THEN -1 ELSE 0

Max(x, y) == IF x > y THEN x ELSE y

Range(s) == {s[i] : i \in 1..Len(s)}

\* x.globalIndex ?? Number.MIN_SAFE_INTEGER
IndexOrMin(x) == IF x.globalIndex = None THEN MIN_SAFE_INTEGER ELSE x.globalIndex[1]

(***************************************************************************)
(* Array.prototype.sort: stable, driven by the sign of cmp(a, b).          *)
(***************************************************************************)
\* the comparator's results over the array: signs[i][j] = cmp(items[i], items[j])
\* rank of items[i] in the sorted array: the elements that sort before it, and
\* of those that compare equal the ones that stood before it (stability)
SortRank(signs, i) ==
  1 + Cardinality({j \in DOMAIN signs :
                     \/ signs[j][i] < 0
                     \/ signs[j][i] = 0 /\ j < i})

ArraySort(items, signs) ==
  [k \in 1..Len(items) |->
     items[CHOOSE i \in 1..Len(items) : SortRank(signs, i) = k]]

(***************************************************************************)
(* Page Merger: datapoints.                                                *)
(***************************************************************************)
isNewerDatapoint(candidate, current) ==
  IF current = None THEN TRUE
  ELSE IF candidate.blockHeight # current[1].blockHeight
       THEN candidate.blockHeight > current[1].blockHeight
       ELSE IndexOrMin(candidate) > IndexOrMin(current[1])

\* mutant: the globalIndex is not compared
sortByBlockDesc_heightOnly(a, b) == b.blockHeight - a.blockHeight

sortByBlockDesc(a, b) ==
  IF a.blockHeight # b.blockHeight
  THEN b.blockHeight - a.blockHeight
  ELSE Compare(IndexOrMin(b), IndexOrMin(a))

\* Map.get(boxId): the stored entry as an optional value
MapGet(map, boxId) ==
  LET hits == SelectSeq(map, LAMBDA e : e.boxId = boxId)
  IN  IF hits = <<>> THEN None ELSE Some(hits[1])

\* mutant: every set appends
MapSet_alwaysAppend(map, item) == Append(map, item)

\* Map.set(item.boxId, item): a new key is appended, an old key keeps its place
MapSet(map, item) ==
  IF MapGet(map, item.boxId) = None
  THEN Append(map, item)
  ELSE [i \in 1..Len(map) |-> IF map[i].boxId = item.boxId THEN item ELSE map[i]]

RECURSIVE DedupeInto(_, _)
DedupeInto(items, map) ==
  IF items = <<>> THEN map
  ELSE LET item == Head(items)
       IN  DedupeInto(Tail(items),
                      IF isNewerDatapoint(item, MapGet(map, item.boxId))
                      THEN MapSet(map, item) ELSE map)

dedupeByBoxId(items) ==
  LET values == DedupeInto(items, <<>>)
  IN  ArraySort(values, [i \in 1..Len(values) |-> [j \in 1..Len(values) |->
                           sortByBlockDesc(values[i], values[j])]])

(***************************************************************************)
(* Page Merger: refresh markers.                                           *)
(***************************************************************************)
\* mutant: a marker of equal height and index replaces the stored one
isNewerMarker_orEqual(marker, existing) ==
  \/ existing = None
  \/ marker.blockHeight > existing[1].blockHeight
  \/ /\ marker.blockHeight = existing[1].blockHeight
     /\ IndexOrMin(marker) >= IndexOrMin(existing[1])

isNewerMarker(marker, existing) ==
  \/ existing = None
  \/ marker.blockHeight > existing[1].blockHeight
  \/ /\ marker.blockHeight = existing[1].blockHeight
     /\ IndexOrMin(marker) > IndexOrMin(existing[1])

markerSortDesc(a, b) ==
  IF a.blockHeight # b.blockHeight
  THEN b.blockHeight - a.blockHeight
  ELSE Compare(IndexOrMin(b), IndexOrMin(a))

RECURSIVE MergeMarkersInto(_, _)
MergeMarkersInto(markers, map) ==
  IF markers = <<>> THEN map
  ELSE LET marker == Head(markers)
       IN  MergeMarkersInto(Tail(markers),
                            IF isNewerMarker(marker, MapGet(map, marker.boxId))
                            THEN MapSet(map, marker) ELSE map)

mergeRefreshMarkers(markers) ==
  LET values == MergeMarkersInto(markers, <<>>)
  IN  ArraySort(values, [i \in 1..Len(values) |-> [j \in 1..Len(values) |->
                           markerSortDesc(values[i], values[j])]])

(***************************************************************************)
(* Epoch Grouper.                                                          *)
(***************************************************************************)
\* a key entered for every datapoint, whether or not its epoch has one
RECURSIVE EpochKeys_everyDatapoint(_, _)
EpochKeys_everyDatapoint(dps, keys) ==
  IF dps = <<>> THEN keys
  ELSE EpochKeys_everyDatapoint(Tail(dps), Append(keys, Head(dps).epochId))

\* keys of the Map<epochId, datapoints[]> in insertion order
RECURSIVE EpochKeys(_, _)
EpochKeys(dps, keys) ==
  IF dps = <<>> THEN keys
  ELSE EpochKeys(Tail(dps),
                 IF Head(dps).epochId \in Range(keys) THEN keys
                 ELSE Append(keys, Head(dps).epochId))

\* the comparator of an ascending sort
epochIdDesc_ascending(a, b) == a - b

epochIdDesc(a, b) == b - a

RECURSIVE MaxBlockHeight(_, _)
MaxBlockHeight(entries, max) ==
  IF entries = <<>> THEN max
  ELSE MaxBlockHeight(Tail(entries),
                      IF Head(entries).blockHeight > max THEN Head(entries).blockHeight ELSE max)

groupByEpoch(dps) ==
  LET ids  == EpochKeys(dps, <<>>)
      keys == ArraySort(ids, [i \in 1..Len(ids) |-> [j \in 1..Len(ids) |->
                                epochIdDesc(ids[i], ids[j])]])
      group(epochId) ==
        LET members == SelectSeq(dps, LAMBDA d : d.epochId = epochId)
            sorted  == ArraySort(members,
                                 [i \in 1..Len(members) |-> [j \in 1..Len(members) |->
                                    sortByBlockDesc(members[i], members[j])]])
        IN  [epochId |-> epochId,
             datapoints |-> sorted,
             blockHeight |-> MaxBlockHeight(sorted, IF sorted = <<>> THEN 0 ELSE sorted[1].blockHeight)]
  IN  [i \in 1..Len(keys) |-> group(keys[i])]

(***************************************************************************)
(* Inclusion Classifier.                                                   *)
(***************************************************************************)
\* refreshTxMap.has(txId)
refreshTxHas(markers, txId) == \E i \in 1..Len(markers) : markers[i].txId = txId

\* a lookup keyed on the marker's boxId where the txId is meant
refreshTxGet_byBoxId(markers, txId) ==
  LET hits == SelectSeq(markers, LAMBDA m : m.boxId = txId)
  IN  IF hits = <<>> THEN None ELSE Some(hits[Len(hits)])

\* refreshTxMap.get(txId): the last marker set under that txId
refreshTxGet(markers, txId) ==
  LET hits == SelectSeq(markers, LAMBDA m : m.txId = txId)
  IN  IF hits = <<>> THEN None ELSE Some(hits[Len(hits)])

\* the first spending transaction taken, whether or not a marker carries it
findRefreshTxId_firstSpent(dps, markers) ==
  LET hits == SelectSeq(dps, LAMBDA d : d.spentTransactionId # Undefined)
  IN  IF hits = <<>> THEN Undefined ELSE hits[1].spentTransactionId

\* epoch.datapoints.map(dp => dp.spentTransactionId).find(txId => txId && refreshTxMap.has(txId))
findRefreshTxId(dps, markers) ==
  LET hits == SelectSeq(dps, LAMBDA d : d.spentTransactionId # Undefined
                                        /\ refreshTxHas(markers, d.spentTransactionId))
  IN  IF hits = <<>> THEN Undefined ELSE hits[1].spentTransactionId

\* an unspent datapoint left pending whether or not the epoch is closed
refreshStatus_unspentPending(dp, refreshTxId) ==
  IF dp.spentTransactionId = Undefined THEN "pending"
  ELSE IF dp.spentTransactionId = refreshTxId THEN "included"
  ELSE "excluded"

refreshStatus(dp, refreshTxId) ==
  IF refreshTxId # Undefined
  THEN (IF dp.spentTransactionId = refreshTxId THEN "included" ELSE "excluded")
  ELSE IF dp.spentTransactionId # Undefined THEN "excluded"
  ELSE "pending"

Decorate(dp, refreshTxId) ==
  [boxId |-> dp.boxId, blockHeight |-> dp.blockHeight, globalIndex |-> dp.globalIndex,
   epochId |-> dp.epochId, oracleAddress |-> dp.oracleAddress,
   spentTransactionId |-> dp.spentTransactionId, poolId |-> dp.poolId,
   refreshStatus |-> refreshStatus(dp, refreshTxId)]

epochBase(epoch, markers) ==
  LET refreshTxId == findRefreshTxId(epoch.datapoints, markers)
  IN  [epochId |-> epoch.epochId,
       blockHeight |-> epoch.blockHeight,
       datapoints |-> [i \in 1..Len(epoch.datapoints) |-> Decorate(epoch.datapoints[i], refreshTxId)],
       refreshTxId |-> refreshTxId,
       refreshMarker |-> IF refreshTxId # Undefined THEN refreshTxGet(markers, refreshTxId) ELSE None]

\* the end of an epoch taken from its datapoints whether or not it is closed
withRanges_endAtHeight(base) ==
  [index \in 1..Len(base) |->
     LET epoch == base[index]
         previousRefreshBlock ==
           IF index + 1 <= Len(base) /\ base[index + 1].refreshMarker # None
           THEN Some(base[index + 1].refreshMarker[1].blockHeight) ELSE None
         startBlock == IF previousRefreshBlock # None THEN Some(previousRefreshBlock[1] + 1) ELSE None
         endBlock == epoch.blockHeight
         blockSpan == IF startBlock # None
                      THEN Some(Max(0, endBlock - startBlock[1] + 1)) ELSE None
     IN  [epochId |-> epoch.epochId, blockHeight |-> epoch.blockHeight,
          datapoints |-> epoch.datapoints, refreshTxId |-> epoch.refreshTxId,
          refreshMarker |-> epoch.refreshMarker,
          startBlock |-> startBlock, endBlock |-> Some(endBlock), blockSpan |-> blockSpan]]

\* an epoch started at the block of the previous refresh, not the one after it
withRanges_startAtRefresh(base) ==
  [index \in 1..Len(base) |->
     LET epoch == base[index]
         previousRefreshBlock ==
           IF index + 1 <= Len(base) /\ base[index + 1].refreshMarker # None
           THEN Some(base[index + 1].refreshMarker[1].blockHeight) ELSE None
         startBlock == IF previousRefreshBlock # None THEN Some(previousRefreshBlock[1]) ELSE None
         endBlock == IF epoch.refreshMarker # None
                     THEN epoch.refreshMarker[1].blockHeight ELSE epoch.blockHeight
         blockSpan == IF startBlock # None
                      THEN Some(Max(0, endBlock - startBlock[1] + 1)) ELSE None
     IN  [epochId |-> epoch.epochId, blockHeight |-> epoch.blockHeight,
          datapoints |-> epoch.datapoints, refreshTxId |-> epoch.refreshTxId,
          refreshMarker |-> epoch.refreshMarker,
          startBlock |-> startBlock, endBlock |-> Some(endBlock), blockSpan |-> blockSpan]]

\* the span left as the difference, below zero when the end precedes the start
withRanges_spanUnclamped(base) ==
  [index \in 1..Len(base) |->
     LET epoch == base[index]
         previousRefreshBlock ==
           IF index + 1 <= Len(base) /\ base[index + 1].refreshMarker # None
           THEN Some(base[index + 1].refreshMarker[1].blockHeight) ELSE None
         startBlock == IF previousRefreshBlock # None THEN Some(previousRefreshBlock[1] + 1) ELSE None
         endBlock == IF epoch.refreshMarker # None
                     THEN epoch.refreshMarker[1].blockHeight ELSE epoch.blockHeight
         blockSpan == IF startBlock # None
                      THEN Some(endBlock - startBlock[1] + 1) ELSE None
     IN  [epochId |-> epoch.epochId, blockHeight |-> epoch.blockHeight,
          datapoints |-> epoch.datapoints, refreshTxId |-> epoch.refreshTxId,
          refreshMarker |-> epoch.refreshMarker,
          startBlock |-> startBlock, endBlock |-> Some(endBlock), blockSpan |-> blockSpan]]

withRanges(base) ==
  [index \in 1..Len(base) |->
     LET epoch == base[index]
         previousRefreshBlock ==
           IF index + 1 <= Len(base) /\ base[index + 1].refreshMarker # None
           THEN Some(base[index + 1].refreshMarker[1].blockHeight) ELSE None
         startBlock == IF previousRefreshBlock # None THEN Some(previousRefreshBlock[1] + 1) ELSE None
         endBlock == IF epoch.refreshMarker # None
                     THEN epoch.refreshMarker[1].blockHeight ELSE epoch.blockHeight
         blockSpan == IF startBlock # None
                      THEN Some(Max(0, endBlock - startBlock[1] + 1)) ELSE None
     IN  [epochId |-> epoch.epochId, blockHeight |-> epoch.blockHeight,
          datapoints |-> epoch.datapoints, refreshTxId |-> epoch.refreshTxId,
          refreshMarker |-> epoch.refreshMarker,
          startBlock |-> startBlock, endBlock |-> Some(endBlock), blockSpan |-> blockSpan]]

\* the placeholder started at the block of the refresh, not the one after it
placeholderEpoch_startAtRefresh(latestEpochWithData) ==
  LET refreshBlockHeight == latestEpochWithData.refreshMarker[1].blockHeight
  IN  [epochId |-> latestEpochWithData.epochId + 1, blockHeight |-> refreshBlockHeight,
       datapoints |-> <<>>, refreshTxId |-> Undefined, refreshMarker |-> None,
       startBlock |-> Some(refreshBlockHeight), endBlock |-> None, blockSpan |-> None]

placeholderEpoch(latestEpochWithData) ==
  LET refreshBlockHeight == latestEpochWithData.refreshMarker[1].blockHeight
  IN  [epochId |-> latestEpochWithData.epochId + 1, blockHeight |-> refreshBlockHeight,
       datapoints |-> <<>>, refreshTxId |-> Undefined, refreshMarker |-> None,
       startBlock |-> Some(refreshBlockHeight + 1), endBlock |-> None, blockSpan |-> None]

epochsWithStatus(dps, markers) ==
  LET groupedEpochs == groupByEpoch(dps)
      base == [i \in 1..Len(groupedEpochs) |-> epochBase(groupedEpochs[i], markers)]
      ranged == withRanges(base)
  IN  IF ranged = <<>> \/ ranged[1].refreshMarker = None
      THEN ranged
      ELSE <<placeholderEpoch(ranged[1])>> \o ranged

(***************************************************************************)
(* Pagination Driver: the state of App and the calls in flight.            *)
(***************************************************************************)
VARIABLES
  mounted,            \* the component has rendered once and run its effects
  selectedPoolId,     \* useState(DEFAULT_POOL_ID)
  datapoints,         \* cumulative datapoints
  refreshMarkers,     \* cumulative refresh markers
  currentPage,
  isLoading,
  error,              \* Null or a message
  totalTransactions,  \* None or <<n>>
  lastFetchedCount,
  desiredEpochs,
  latestNodeHeight,   \* None or <<h>>
  fetches,            \* bag of loadPage calls awaiting fetchDatapointPage
  livePoll,           \* None or <<the poll loop of the current effect>>
  stalePolls,         \* bag of cancelled loops whose fetchNodeInfo is in flight
  orderPages,         \* pages A, B, C of the merge-order run
  orderLeft,          \* cumulative datapoints of the run [A, B] then [C]
  orderRight,         \* cumulative datapoints of the run [C] then [A, B]
  orderStep,          \* pages merged so far in both runs
  operatorAddresses,  \* useState<string[]>([]): the roster
  oraclePoolValue,    \* None or <<the latest pool value>>
  auxFetches,         \* roster and latest-value requests awaiting their response
  epochStats,         \* the epochStats memo: the statistics of each derived epoch
  renders,            \* times the epochStats memo has been computed
  nodeResponse,       \* the boxes the node answers a page request with
  unspentSource,      \* the node's unspent boxes of a token and how it answers
  unspentLoop         \* fetchAllUnspentBoxesByTokenId: items, offset, position

vars == <<mounted, selectedPoolId, datapoints, refreshMarkers, currentPage, isLoading,
          error, totalTransactions, lastFetchedCount, desiredEpochs, latestNodeHeight,
          fetches, livePoll, stalePolls, orderPages, orderLeft, orderRight,
          orderStep, operatorAddresses, oraclePoolValue, auxFetches, epochStats,
          renders, nodeResponse, unspentSource, unspentLoop>>

driverVars == <<mounted, selectedPoolId, currentPage, isLoading, error, totalTransactions,
                lastFetchedCount, desiredEpochs, latestNodeHeight, fetches, livePoll,
                stalePolls>>

orderVars == <<orderPages, orderLeft, orderRight, orderStep>>

auxVars == <<operatorAddresses, oraclePoolValue, auxFetches>>

statsVars == <<epochStats, renders>>

unspentVars == <<unspentSource, unspentLoop>>

\* what the page pipeline neither reads nor writes
sideVars == <<orderVars, auxVars, statsVars, nodeResponse, unspentVars>>

Null == "null"

\* config.ts: the monitored pools, the default pool and the page size
ORACLE_POOLS == {"USD", "XAU"}
DEFAULT_POOL_ID == "USD"
DATAPOINT_PAGE_SIZE == 100
MIN_VISIBLE_EPOCHS == 3

\* bounds of the exploration
MaxInFlight == 2        \* page fetches awaiting their response
MaxStalePolls == 1      \* cancelled polls awaiting their response
MaxDesiredEpochs == 4   \* rows the reader scrolls to
SourceTotal == 250      \* boxes the node reports for a token
MaxPageLen == 2         \* boxes in a page of the merge runs
MaxPage == 2            \* last page the merge runs load

NodeHeights == {0, 700, 701}   \* fullHeight of a node info; 0 stands for a missing one

Min(x, y) == IF x < y THEN x ELSE y

visibleEpochs(epochs, desired) == SubSeq(epochs, 1, Min(desired, Len(epochs)))

\* the page arithmetic alone, the error not consulted
hasMore_ignoreError(err, total, page, lastCount) ==
  \/ total = None
  \/ (page + 1) * DATAPOINT_PAGE_SIZE < total[1]
  \/ lastCount = DATAPOINT_PAGE_SIZE

\* the records before the current page counted where those through it are meant
hasMore_beforePage(err, total, page, lastCount) ==
  /\ err = Null
  /\ \/ total = None
     \/ page * DATAPOINT_PAGE_SIZE < total[1]
     \/ lastCount = DATAPOINT_PAGE_SIZE

hasMore(err, total, page, lastCount) ==
  /\ err = Null
  /\ \/ total = None
     \/ (page + 1) * DATAPOINT_PAGE_SIZE < total[1]
     \/ lastCount = DATAPOINT_PAGE_SIZE

\* the page appended to the cumulative list, deduplicated only on a replace
setDatapoints_concat(current, pageData, replace) ==
  IF replace THEN dedupeByBoxId(pageData) ELSE current \o pageData

\* setDatapoints((current) => dedupeByBoxId(replace ? pageData : [...current, ...pageData]))
setDatapoints(current, pageData, replace) ==
  dedupeByBoxId(IF replace THEN pageData ELSE current \o pageData)

\* setRefreshMarkers((current) => mergeRefreshMarkers(replace ? refreshBoxes : [...current, ...refreshBoxes]))
setRefreshMarkers(current, refreshBoxes, replace) ==
  mergeRefreshMarkers(IF replace THEN refreshBoxes ELSE current \o refreshBoxes)

\* a loadPage(nextPage, replace) call of the closure made for `pool`, awaiting its page
PageFetch(pool, nextPage, replace, caller) ==
  [pool |-> pool, page |-> nextPage, replace |-> replace, caller |-> caller]

\* a page requested also when the visible epochs already number the desired ones
autoContinue_atDesired(dps, mks, des, err, total, page, lastCount, loading) ==
  /\ Len(visibleEpochs(epochsWithStatus(dps, mks), des)) <= des
  /\ hasMore(err, total, page, lastCount)
  /\ ~loading

\* the condition of the auto-continuation effect, on the values of one render
autoContinue(dps, mks, des, err, total, page, lastCount, loading) ==
  /\ Len(visibleEpochs(epochsWithStatus(dps, mks), des)) < des
  /\ hasMore(err, total, page, lastCount)
  /\ ~loading

(***************************************************************************)
(* The node as the driver runs see it: SourceTotal boxes per token, the    *)
(* page at offset page * pageSize, one decodable datapoint per non-empty   *)
(* page, each page but the newest closed by a refresh box of its own.      *)
(***************************************************************************)
PageCount(page) == Max(0, Min(DATAPOINT_PAGE_SIZE, SourceTotal - page * DATAPOINT_PAGE_SIZE))

NodeDatapoint(pool, page) ==
  [boxId |-> pool \o "-dp" \o ToString(page),
   blockHeight |-> 100 - 2 * page,
   globalIndex |-> Some(100 - 2 * page),
   epochId |-> 10 - page,
   oracleAddress |-> "A",
   spentTransactionId |-> IF page = 0 THEN Undefined ELSE pool \o "-tx" \o ToString(page),
   poolId |-> pool]

NodeMarker(pool, page) ==
  [boxId |-> pool \o "-rb" \o ToString(page),
   txId |-> pool \o "-tx" \o ToString(page),
   blockHeight |-> 101 - 2 * page,
   globalIndex |-> Some(101 - 2 * page)]

fetchDatapointPage(pool, page) ==
  [datapoints |-> IF PageCount(page) > 0 THEN <<NodeDatapoint(pool, page)>> ELSE <<>>,
   refreshBoxes |-> IF PageCount(page) > 0 /\ page > 0 THEN <<NodeMarker(pool, page)>> ELSE <<>>,
   totals |-> [oracle |-> SourceTotal, datapoint |-> SourceTotal],
   pageCounts |-> [oracle |-> PageCount(page), datapoint |-> PageCount(page)]]

(***************************************************************************)
(* One render and the auto-continuation effect that follows it: when the   *)
(* rendered values satisfy its condition it calls loadPage(currentPage+1)  *)
(* of the selected pool, which sets isLoading and clears error.            *)
(***************************************************************************)
Render(pool, dps, mks, page, loading, err, total, lastCount, des, inFlight) ==
  LET fire == autoContinue(dps, mks, des, err, total, page, lastCount, loading)
  IN  /\ selectedPoolId' = pool
      /\ datapoints' = dps
      /\ refreshMarkers' = mks
      /\ currentPage' = page
      /\ totalTransactions' = total
      /\ lastFetchedCount' = lastCount
      /\ desiredEpochs' = des
      /\ isLoading' = (loading \/ fire)
      /\ error' = IF fire THEN Null ELSE err
      /\ fetches' = IF fire
                    THEN inFlight (+) SetToBag({PageFetch(pool, page + 1, FALSE, "auto")})
                    ELSE inFlight
      /\ BagCardinality(fetches') <= MaxInFlight

(***************************************************************************)
(* The effects keyed on the selected pool, run after the render that first *)
(* shows `pool` (the mount, or a pool switch): the reset effect, the       *)
(* refresh effect, the poll effect (cleanup of the previous loop, then a   *)
(* new loop whose first poll starts at once) and the auto-continuation     *)
(* effect, which reads the values of that render, not those the earlier    *)
(* effects have just set.  The render that follows shows isLoading = true. *)
(***************************************************************************)
PoolEffects(pool) ==
  LET fire == autoContinue(datapoints, refreshMarkers, desiredEpochs, error,
                           totalTransactions, currentPage, lastFetchedCount, isLoading)
      refreshLoad == SetToBag({PageFetch(pool, 0, TRUE, "refresh")})
      autoLoad == IF fire THEN SetToBag({PageFetch(pool, currentPage + 1, FALSE, "auto")})
                  ELSE EmptyBag
  IN  /\ selectedPoolId' = pool
      /\ datapoints' = <<>>
      /\ currentPage' = 0
      /\ totalTransactions' = None
      /\ error' = Null
      /\ refreshMarkers' = <<>>
      /\ desiredEpochs' = MIN_VISIBLE_EPOCHS
      /\ isLoading' = TRUE
      /\ fetches' = (fetches (+) refreshLoad) (+) autoLoad
      /\ BagCardinality(fetches') <= MaxInFlight
      /\ livePoll' = Some([pool |-> pool, lastHeight |-> 0, phase |-> "polling"])
      /\ stalePolls' = IF livePoll # None /\ livePoll[1].phase = "polling"
                       THEN stalePolls (+) SetToBag({[pool |-> livePoll[1].pool,
                                                      lastHeight |-> livePoll[1].lastHeight]})
                       ELSE stalePolls
      /\ BagCardinality(stalePolls') <= MaxStalePolls
      /\ UNCHANGED <<lastFetchedCount, latestNodeHeight>>

Mount ==
  /\ ~mounted
  /\ mounted' = TRUE
  /\ PoolEffects(selectedPoolId)
  /\ UNCHANGED sideVars

\* onChange of the pool select, which is disabled while isLoading
PoolSwitch(pool) ==
  /\ mounted
  /\ ~isLoading
  /\ pool # selectedPoolId
  /\ PoolEffects(pool)
  /\ UNCHANGED <<mounted, sideVars>>

\* fetchDatapointPage resolves and loadPage applies the page
PageApplied(f) ==
  /\ BagIn(f, fetches)
  /\ LET result == fetchDatapointPage(f.pool, f.page)
     IN  /\ Render(selectedPoolId,
                   setDatapoints(datapoints, result.datapoints, f.replace),
                   setRefreshMarkers(refreshMarkers, result.refreshBoxes, f.replace),
                   f.page, FALSE, error,
                   Some(Max(result.totals.oracle, result.totals.datapoint)),
                   Max(result.pageCounts.oracle, result.pageCounts.datapoint),
                   desiredEpochs, fetches (-) SetToBag({f}))
  /\ UNCHANGED <<mounted, latestNodeHeight, livePoll, stalePolls>>

FetchResolve(f) ==
  /\ PageApplied(f)
  /\ UNCHANGED sideVars

\* fetchDatapointPage rejects and loadPage records the message
PageFailed(f) ==
  /\ BagIn(f, fetches)
  /\ Render(selectedPoolId, datapoints, refreshMarkers, currentPage, FALSE,
            "Ergo node error", totalTransactions, lastFetchedCount, desiredEpochs,
            fetches (-) SetToBag({f}))
  /\ UNCHANGED <<mounted, latestNodeHeight, livePoll, stalePolls>>

FetchReject(f) ==
  /\ PageFailed(f)
  /\ UNCHANGED sideVars

(***************************************************************************)
(* poll(): after fetchNodeInfo the height is stored and, when it differs   *)
(* from the loop's lastHeight, refresh() of the loop's closure runs:       *)
(* setDesiredEpochs(MIN_VISIBLE_EPOCHS) and loadPage(0, true) for the pool *)
(* the loop was created for.  Nothing here reads `cancelled`.              *)
(***************************************************************************)
PollApply(loop, height) ==
  LET stored == height # 0
      refreshed == stored /\ height # loop.lastHeight
  IN  /\ latestNodeHeight' = IF stored THEN Some(height) ELSE latestNodeHeight
      /\ IF refreshed
         THEN Render(selectedPoolId, datapoints, refreshMarkers, currentPage, TRUE, Null,
                     totalTransactions, lastFetchedCount, MIN_VISIBLE_EPOCHS,
                     fetches (+) SetToBag({PageFetch(loop.pool, 0, TRUE, "refresh")}))
         ELSE UNCHANGED <<selectedPoolId, datapoints, refreshMarkers, currentPage, isLoading,
                          error, totalTransactions, lastFetchedCount, desiredEpochs, fetches>>

\* the poll of the live loop resolves; scheduleNextPoll arms the timer
PollResolve(height) ==
  /\ livePoll # None
  /\ livePoll[1].phase = "polling"
  /\ PollApply(livePoll[1], height)
  /\ livePoll' = Some([pool |-> livePoll[1].pool,
                       lastHeight |-> IF height # 0 THEN height ELSE livePoll[1].lastHeight,
                       phase |-> "waiting"])
  /\ UNCHANGED <<mounted, stalePolls, sideVars>>

\* mutant: the finally block arms no timer
PollReject_noReschedule ==
  /\ livePoll # None
  /\ livePoll[1].phase = "polling"
  /\ livePoll' = Some([livePoll[1] EXCEPT !.phase = "stopped"])
  /\ UNCHANGED <<mounted, selectedPoolId, datapoints, refreshMarkers, currentPage, isLoading,
                 error, totalTransactions, lastFetchedCount, desiredEpochs, latestNodeHeight,
                 fetches, stalePolls, sideVars>>

\* the poll of the live loop rejects; scheduleNextPoll arms the timer
PollReject ==
  /\ livePoll # None
  /\ livePoll[1].phase = "polling"
  /\ livePoll' = Some([livePoll[1] EXCEPT !.phase = "waiting"])
  /\ UNCHANGED <<mounted, selectedPoolId, datapoints, refreshMarkers, currentPage, isLoading,
                 error, totalTransactions, lastFetchedCount, desiredEpochs, latestNodeHeight,
                 fetches, stalePolls, sideVars>>

\* window.setTimeout(poll, intervalMs) fires
PollTimer ==
  /\ livePoll # None
  /\ livePoll[1].phase = "waiting"
  /\ livePoll' = Some([livePoll[1] EXCEPT !.phase = "polling"])
  /\ UNCHANGED <<mounted, selectedPoolId, datapoints, refreshMarkers, currentPage, isLoading,
                 error, totalTransactions, lastFetchedCount, desiredEpochs, latestNodeHeight,
                 fetches, stalePolls, sideVars>>

\* the poll of a cancelled loop resolves; scheduleNextPoll returns at once
StalePollResolve(loop, height) ==
  /\ BagIn(loop, stalePolls)
  /\ PollApply(loop, height)
  /\ stalePolls' = stalePolls (-) SetToBag({loop})
  /\ UNCHANGED <<mounted, livePoll, sideVars>>

\* the poll of a cancelled loop rejects
StalePollReject(loop) ==
  /\ BagIn(loop, stalePolls)
  /\ stalePolls' = stalePolls (-) SetToBag({loop})
  /\ UNCHANGED <<mounted, selectedPoolId, datapoints, refreshMarkers, currentPage, isLoading,
                 error, totalTransactions, lastFetchedCount, desiredEpochs, latestNodeHeight,
                 fetches, livePoll, sideVars>>

\* the IntersectionObserver callback of the load-more sentinel
ShowMore ==
  /\ mounted
  /\ ~isLoading
  /\ \/ hasMore(error, totalTransactions, currentPage, lastFetchedCount)
     \/ Len(visibleEpochs(epochsWithStatus(datapoints, refreshMarkers), desiredEpochs))
          < Len(epochsWithStatus(datapoints, refreshMarkers))
  /\ desiredEpochs < MaxDesiredEpochs
  /\ Render(selectedPoolId, datapoints, refreshMarkers, currentPage, isLoading, error,
            totalTransactions, lastFetchedCount, desiredEpochs + 1, fetches)
  /\ UNCHANGED <<mounted, latestNodeHeight, livePoll, stalePolls, sideVars>>

\* the roster and the latest value as useState leaves them, nothing requested,
\* no statistics computed
InitSide ==
  /\ operatorAddresses = <<>>
  /\ oraclePoolValue = None
  /\ auxFetches = {}
  /\ epochStats = <<>>
  /\ renders = 0
  /\ nodeResponse = <<>>
  /\ unspentSource = <<>>
  /\ unspentLoop = <<>>

Init ==
  /\ InitSide
  /\ mounted = FALSE
  /\ selectedPoolId = DEFAULT_POOL_ID
  /\ datapoints = <<>>
  /\ refreshMarkers = <<>>
  /\ currentPage = 0
  /\ isLoading = FALSE
  /\ error = Null
  /\ totalTransactions = None
  /\ lastFetchedCount = 0
  /\ desiredEpochs = MIN_VISIBLE_EPOCHS
  /\ latestNodeHeight = None
  /\ fetches = EmptyBag
  /\ livePoll = None
  /\ stalePolls = EmptyBag
  /\ orderPages = <<>>
  /\ orderLeft = <<>>
  /\ orderRight = <<>>
  /\ orderStep = 0

Next ==
  \/ Mount
  \/ \E pool \in ORACLE_POOLS : PoolSwitch(pool)
  \/ \E f \in BagToSet(fetches) : FetchResolve(f)
  \/ \E f \in BagToSet(fetches) : FetchReject(f)
  \/ \E height \in NodeHeights : PollResolve(height)
  \/ PollReject
  \/ PollTimer
  \/ \E loop \in BagToSet(stalePolls), height \in NodeHeights : StalePollResolve(loop, height)
  \/ \E loop \in BagToSet(stalePolls) : StalePollReject(loop)
  \/ ShowMore

Spec == Init /\ [][Next]_vars

\* one fetchDatapointPage call settles: the request resolves or rejects
FetchSettles == \E f \in BagToSet(fetches) : FetchResolve(f) \/ FetchReject(f)

\* weak fairness of FetchSettles, written out: the action is enabled exactly
\* when a call is in flight, since settling a call removes it from fetches and
\* starts at most one other
FetchFairness == ([]<>(fetches = EmptyBag)) \/ ([]<><<FetchSettles>>_vars)

\* the driver with its scheduling: React runs the effects of the first render,
\* and a pending page request is settled by the network layer
SpecFair == Spec /\ WF_vars(Mount) /\ FetchFairness

(***************************************************************************)
(* Auxiliary requests: the roster (loadOperators) and the latest pool      *)
(* value (loadOracleValue).  Each run of the two effects owns a flag       *)
(* isCancelled, set by its cleanup and read when its request settles; a    *)
(* request awaiting its response is a record of auxFetches with that flag. *)
(* `poolChanged` records that the selection has changed since the request  *)
(* was made; no code reads it.  In the driver runs below the node leaves   *)
(* the poll of the live loop unanswered and fails the polls of cancelled   *)
(* loops, so that no poll refreshes.                                       *)
(***************************************************************************)
\* requests whose effect run has been cleaned up and that are still awaited
MaxStaleAux == 3

AuxFetch(kind, pool) ==
  [kind |-> kind, pool |-> pool, cancelled |-> FALSE, poolChanged |-> FALSE]

\* what the node answers for a pool
RosterOf(pool) == IF pool = "USD" THEN <<"A", "B">> ELSE <<"C">>

PoolValueOf(pool) == IF pool = "USD" THEN 1 ELSE 2

\* mutant: the cleanup of an effect run leaves its flag alone
CleanUp_keepFlag(requests, kinds) == requests

\* the cleanups of the effect runs of `kinds`: isCancelled = true
CleanUp(requests, kinds) ==
  {IF r.kind \in kinds THEN [r EXCEPT !.cancelled = TRUE] ELSE r : r \in requests}

\* the render after refreshMarkers has been set: loadOracleValue is cleaned
\* up and runs again
ValueEffect(requests, pool) ==
  CleanUp(requests, {"value"}) \cup {AuxFetch("value", pool)}

\* the effects keyed on the selected pool that deal with the roster and the
\* value: the reset effect empties the roster, both effects are cleaned up
\* and run for `pool`, and the render that follows the reset effect's
\* setRefreshMarkers([]) cleans loadOracleValue up and runs it once more
AuxEffects(pool) ==
  /\ operatorAddresses' = <<>>
  /\ auxFetches' =
       ValueEffect(CleanUp({[r EXCEPT !.poolChanged = (r.pool # pool)] : r \in auxFetches},
                           {"operators", "value"})
                     \cup {AuxFetch("operators", pool), AuxFetch("value", pool)},
                   pool)
  /\ Cardinality({r \in auxFetches' : r.cancelled}) <= MaxStaleAux
  /\ UNCHANGED oraclePoolValue

AuxMount ==
  /\ ~mounted
  /\ mounted' = TRUE
  /\ PoolEffects(selectedPoolId)
  /\ AuxEffects(selectedPoolId)
  /\ UNCHANGED <<orderVars, statsVars, nodeResponse, unspentVars>>

AuxPoolSwitch(pool) ==
  /\ mounted
  /\ ~isLoading
  /\ pool # selectedPoolId
  /\ PoolEffects(pool)
  /\ AuxEffects(pool)
  /\ UNCHANGED <<mounted, orderVars, statsVars, nodeResponse, unspentVars>>

\* a page is applied: setRefreshMarkers stores a new array
AuxFetchResolve(f) ==
  /\ PageApplied(f)
  /\ auxFetches' = ValueEffect(auxFetches, selectedPoolId)
  /\ Cardinality({r \in auxFetches' : r.cancelled}) <= MaxStaleAux
  /\ UNCHANGED <<operatorAddresses, oraclePoolValue, orderVars, statsVars, nodeResponse, unspentVars>>

AuxFetchReject(f) ==
  /\ PageFailed(f)
  /\ UNCHANGED sideVars

pipelineVars == <<mounted, selectedPoolId, datapoints, refreshMarkers, currentPage, isLoading,
                  error, totalTransactions, lastFetchedCount, desiredEpochs, latestNodeHeight,
                  fetches, livePoll, stalePolls>>

\* fetchOperatorAddresses resolves
OperatorsResolve(r) ==
  /\ r \in auxFetches /\ r.kind = "operators"
  /\ auxFetches' = auxFetches \ {r}
  /\ operatorAddresses' = IF ~r.cancelled THEN RosterOf(r.pool) ELSE operatorAddresses
  /\ UNCHANGED <<pipelineVars, oraclePoolValue, orderVars, statsVars, nodeResponse, unspentVars>>

\* fetchOperatorAddresses rejects
OperatorsReject(r) ==
  /\ r \in auxFetches /\ r.kind = "operators"
  /\ auxFetches' = auxFetches \ {r}
  /\ operatorAddresses' = IF ~r.cancelled THEN <<>> ELSE operatorAddresses
  /\ UNCHANGED <<pipelineVars, oraclePoolValue, orderVars, statsVars, nodeResponse, unspentVars>>

\* fetchLatestOraclePoolValue resolves
ValueResolve(r) ==
  /\ r \in auxFetches /\ r.kind = "value"
  /\ auxFetches' = auxFetches \ {r}
  /\ oraclePoolValue' = IF ~r.cancelled THEN Some(PoolValueOf(r.pool)) ELSE oraclePoolValue
  /\ UNCHANGED <<pipelineVars, operatorAddresses, orderVars, statsVars, nodeResponse, unspentVars>>

\* fetchLatestOraclePoolValue rejects
ValueReject(r) ==
  /\ r \in auxFetches /\ r.kind = "value"
  /\ auxFetches' = auxFetches \ {r}
  /\ oraclePoolValue' = IF ~r.cancelled THEN None ELSE oraclePoolValue
  /\ UNCHANGED <<pipelineVars, operatorAddresses, orderVars, statsVars, nodeResponse, unspentVars>>

NextAux ==
  \/ AuxMount
  \/ \E pool \in ORACLE_POOLS : AuxPoolSwitch(pool)
  \/ \E f \in BagToSet(fetches) : AuxFetchResolve(f)
  \/ \E f \in BagToSet(fetches) : AuxFetchReject(f)
  \/ \E loop \in BagToSet(stalePolls) : StalePollReject(loop)
  \/ \E r \in auxFetches : OperatorsResolve(r)
  \/ \E r \in auxFetches : OperatorsReject(r)
  \/ \E r \in auxFetches : ValueResolve(r)
  \/ \E r \in auxFetches : ValueReject(r)

SpecAux == Init /\ [][NextAux]_vars

(***************************************************************************)
(* Page service: fetchDatapointPage from the three responses of the node   *)
(* on.  A box carries its registers as what the decoders make of them:     *)
(* R4 is "missing", "malformed" (Constant.decode_from_base16 throws),      *)
(* a "key" (decodeOraclePublicKey returns, to_i64 throws) or a "long"      *)
(* (decodeI64Register returns, decodeOraclePublicKey throws); R5 and R6    *)
(* are "missing", "malformed" or "valid".  The oracleSnapshots of the      *)
(* result, decoded under a try block of their own and read by no caller,   *)
(* are left out.                                                           *)
(***************************************************************************)
\* decodeOraclePublicKey(r4), decodeI32Register(r5), decodeI64Register(r6) of
\* decodeOracleDatapoint: one of them throws
DatapointDecodeThrows(box) == box.R4 # "key" \/ box.R5 # "valid" \/ box.R6 # "valid"

\* mutant: the decoding runs outside the try block
decodeOracleDatapoint_uncaught(poolId, source, box) ==
  IF box.R4 = "missing" \/ box.R5 = "missing" \/ box.R6 = "missing"
  THEN [thrown |-> FALSE, datapoint |-> None]
  ELSE IF DatapointDecodeThrows(box)
       THEN [thrown |-> TRUE, datapoint |-> None]
       ELSE [thrown |-> FALSE,
             datapoint |-> Some([boxId |-> box.boxId, blockHeight |-> box.blockHeight,
                                 globalIndex |-> box.globalIndex, epochId |-> box.epochId,
                                 oracleAddress |-> box.address,
                                 spentTransactionId |-> box.spentTransactionId,
                                 poolId |-> poolId, source |-> source])]

\* the datapoint of a box, or undefined; `thrown` tells an exception that
\* leaves the function, which the catch block makes impossible
decodeOracleDatapoint(poolId, source, box) ==
  IF box.R4 = "missing" \/ box.R5 = "missing" \/ box.R6 = "missing"
  THEN [thrown |-> FALSE, datapoint |-> None]
  ELSE IF DatapointDecodeThrows(box)
       THEN [thrown |-> FALSE, datapoint |-> None]
       ELSE [thrown |-> FALSE,
             datapoint |-> Some([boxId |-> box.boxId, blockHeight |-> box.blockHeight,
                                 globalIndex |-> box.globalIndex, epochId |-> box.epochId,
                                 oracleAddress |-> box.address,
                                 spentTransactionId |-> box.spentTransactionId,
                                 poolId |-> poolId, source |-> source])]

\* items.map(decode).filter(Boolean)
DecodedDatapoints(poolId, source, items) ==
  LET decoded == [i \in 1..Len(items) |-> decodeOracleDatapoint(poolId, source, items[i])]
      kept == SelectSeq(decoded, LAMBDA d : d.datapoint # None)
  IN  [i \in 1..Len(kept) |-> kept[i].datapoint[1]]

DecodeEscapes(poolId, source, items) ==
  \E i \in 1..Len(items) : decodeOracleDatapoint(poolId, source, items[i]).thrown

\* a dedupe in which the first record of a boxId always stays
pageDedupeSets_firstOnly(existing, dp) == existing = None

\* !existing || (existing.source === 'oracleBox' && dp.source === 'datapointBox')
pageDedupeSets(existing, dp) ==
  IF existing = None THEN TRUE
  ELSE existing[1].source = "oracleBox" /\ dp.source = "datapointBox"

\* the page's own dedupe: the first record of a boxId stays unless it came
\* from the oracle list and the later one from the datapoint list
RECURSIVE PageDedupeInto(_, _)
PageDedupeInto(items, map) ==
  IF items = <<>> THEN map
  ELSE LET dp == Head(items)
           existing == MapGet(map, dp.boxId)
       IN  PageDedupeInto(Tail(items),
             IF pageDedupeSets(existing, dp) THEN MapSet(map, dp) ELSE map)

\* decodeI64Register(R4) of a refresh box, called outside any try block
MarkerDecodeThrows(box) == box.R4 \notin {"missing", "long"}

refreshMarkersBase(items) ==
  [i \in 1..Len(items) |->
     [boxId |-> items[i].boxId, txId |-> items[i].transactionId,
      blockHeight |-> items[i].blockHeight, globalIndex |-> items[i].globalIndex]]

\* the outcome of fetchDatapointPage: the promise rejects when an exception
\* leaves the function, and resolves with the page otherwise
decodePage(poolId, response) ==
  LET oracleData == DecodedDatapoints(poolId, "oracleBox", response.oracleBoxes.items)
      datapointData == DecodedDatapoints(poolId, "datapointBox", response.datapointBoxes.items)
      deduped == PageDedupeInto(oracleData \o datapointData, <<>>)
      sorted == ArraySort(deduped, [i \in 1..Len(deduped) |-> [j \in 1..Len(deduped) |->
                            deduped[j].blockHeight - deduped[i].blockHeight]])
  IN  IF \/ DecodeEscapes(poolId, "oracleBox", response.oracleBoxes.items)
         \/ DecodeEscapes(poolId, "datapointBox", response.datapointBoxes.items)
         \/ \E i \in 1..Len(response.refreshBoxes.items) :
              MarkerDecodeThrows(response.refreshBoxes.items[i])
      THEN [rejected |-> TRUE]
      ELSE [rejected |-> FALSE,
            result |-> [datapoints |-> sorted,
                        totals |-> [oracle |-> response.oracleBoxes.total,
                                    datapoint |-> response.datapointBoxes.total],
                        pageCounts |-> [oracle |-> Len(response.oracleBoxes.items),
                                        datapoint |-> Len(response.datapointBoxes.items)],
                        refreshBoxes |-> refreshMarkersBase(response.refreshBoxes.items)]]

(***************************************************************************)
(* Participation Accountant: buildEpochRenderStats, the statistics and the *)
(* chart sequence of one classified epoch against the roster.  The         *)
(* transaction rows of the epoch are left out.                             *)
(***************************************************************************)
\* epoch.datapoints.filter((dp) => dp.refreshStatus === status).length
CountStatus(dps, status) == Len(SelectSeq(dps, LAMBDA dp : dp.refreshStatus = status))

sortByBlockAsc(a, b) ==
  IF a.blockHeight # b.blockHeight
  THEN a.blockHeight - b.blockHeight
  ELSE Compare(IndexOrMin(a), IndexOrMin(b))

\* datapointsByAddress.has(address)
ByAddressHas(map, address) == \E i \in 1..Len(map) : map[i].address = address

\* datapointsByAddress.get(address) ?? []
ByAddressGet(map, address) ==
  LET hits == SelectSeq(map, LAMBDA entry : entry.address = address)
  IN  IF hits = <<>> THEN <<>> ELSE hits[1].list

RECURSIVE GroupByAddressInto(_, _)
GroupByAddressInto(dps, map) ==
  IF dps = <<>> THEN map
  ELSE LET dp == Head(dps)
       IN  GroupByAddressInto(Tail(dps),
             IF ByAddressHas(map, dp.oracleAddress)
             THEN [i \in 1..Len(map) |->
                     IF map[i].address = dp.oracleAddress
                     THEN [map[i] EXCEPT !.list = Append(@, dp)]
                     ELSE map[i]]
             ELSE Append(map, [address |-> dp.oracleAddress, list |-> <<dp>>]))

\* a Map from address to the datapoints of that address, both in input order
buildDatapointsByAddress(dps) == GroupByAddressInto(dps, <<>>)

\* [...(datapointsByAddress.get(address) ?? [])].sort(sortByBlockAsc)
getSortedDatapoints(map, address) ==
  LET list == ByAddressGet(map, address)
  IN  ArraySort(list, [i \in 1..Len(list) |-> [j \in 1..Len(list) |->
                         sortByBlockAsc(list[i], list[j])]])

DatapointDots(dps) == [i \in 1..Len(dps) |-> [type |-> "datapoint", datapoint |-> dps[i]]]

\* operatorUniverse.forEach: an inactive dot for an address without datapoints,
\* the sorted datapoints of the address otherwise
RECURSIVE UniverseDots(_, _)
UniverseDots(operatorUniverse, map) ==
  IF operatorUniverse = <<>> THEN <<>>
  ELSE LET address == Head(operatorUniverse)
           sorted == getSortedDatapoints(map, address)
       IN  (IF sorted = <<>>
            THEN <<[type |-> "inactive", operator |-> address]>>
            ELSE DatapointDots(sorted))
             \o UniverseDots(Tail(operatorUniverse), map)

\* datapointsByAddress.forEach: the datapoints of the addresses outside the
\* universe, in the order of the Map
RECURSIVE OutsiderDots(_, _, _)
OutsiderDots(entries, map, knownOperators) ==
  IF entries = <<>> THEN <<>>
  ELSE (IF Head(entries).address \in knownOperators
        THEN <<>>
        ELSE DatapointDots(getSortedDatapoints(map, Head(entries).address)))
         \o OutsiderDots(Tail(entries), map, knownOperators)

getHeight(dot) == IF dot.type = "inactive" THEN 0 ELSE dot.datapoint.blockHeight

\* mutant: a datapoint dot sorts before an inactive dot of the same height
chartDotOrder_datapointFirst(a, b) ==
  IF getHeight(a) # getHeight(b) THEN getHeight(a) - getHeight(b)
  ELSE IF a.type # b.type THEN (IF a.type = "inactive" THEN 1 ELSE -1)
  ELSE IF a.type = "inactive" \/ b.type = "inactive" THEN 0
  ELSE Compare(IndexOrMin(a.datapoint), IndexOrMin(b.datapoint))

\* the comparator of the final dots.sort
chartDotOrder(a, b) ==
  IF getHeight(a) # getHeight(b) THEN getHeight(a) - getHeight(b)
  ELSE IF a.type # b.type THEN (IF a.type = "inactive" THEN -1 ELSE 1)
  ELSE IF a.type = "inactive" \/ b.type = "inactive" THEN 0
  ELSE Compare(IndexOrMin(a.datapoint), IndexOrMin(b.datapoint))

\* mutant: a sort that is not stable, dots that compare equal leave it in
\* input order on one run and in reverse input order on the next
buildChartDots_unstableSort(operatorUniverse, datapointsByAddress) ==
  LET dots == UniverseDots(operatorUniverse, datapointsByAddress)
                \o OutsiderDots(datapointsByAddress, datapointsByAddress,
                                Range(operatorUniverse))
      signs == [i \in 1..Len(dots) |-> [j \in 1..Len(dots) |->
                  LET sign == chartDotOrder(dots[i], dots[j])
                  IN  IF sign = 0 /\ renders % 2 = 1 THEN Compare(j, i) ELSE sign]]
  IN  ArraySort(dots, signs)

buildChartDots(operatorUniverse, datapointsByAddress) ==
  LET dots == UniverseDots(operatorUniverse, datapointsByAddress)
                \o OutsiderDots(datapointsByAddress, datapointsByAddress,
                                Range(operatorUniverse))
  IN  ArraySort(dots, [i \in 1..Len(dots) |-> [j \in 1..Len(dots) |->
                         chartDotOrder(dots[i], dots[j])]])

\* mutant: the roster is the universe even when it is empty
operatorUniverseOf_rosterOnly(roster, datapointsByAddress) == roster

\* operatorAddresses.length > 0 ? operatorAddresses
\*                              : Array.from(datapointsByAddress.keys())
operatorUniverseOf(roster, datapointsByAddress) ==
  IF Len(roster) > 0
  THEN roster
  ELSE [i \in 1..Len(datapointsByAddress) |-> datapointsByAddress[i].address]

\* mutant: an address counts as inactive when it has a datapoint
inactiveCountOf_counted(operatorUniverse, datapointsByAddress) ==
  Len(SelectSeq(operatorUniverse, LAMBDA address : ByAddressHas(datapointsByAddress, address)))

\* operatorUniverse.reduce: the addresses of the universe without a datapoint
inactiveCountOf(operatorUniverse, datapointsByAddress) ==
  Len(SelectSeq(operatorUniverse, LAMBDA address : ~ByAddressHas(datapointsByAddress, address)))

\* mutant: the pending count forgets the excluded datapoints
buildEpochRenderStats_lessIncluded(epoch, roster) ==
  LET includedCount == CountStatus(epoch.datapoints, "included")
      excludedCount == CountStatus(epoch.datapoints, "excluded")
      datapointsByAddress == buildDatapointsByAddress(epoch.datapoints)
      operatorUniverse == operatorUniverseOf(roster, datapointsByAddress)
      inactiveCount == inactiveCountOf(operatorUniverse, datapointsByAddress)
      totalOperators == Len(operatorUniverse)
  IN  [uniqueOracles |-> Cardinality({epoch.datapoints[i].oracleAddress :
                                        i \in 1..Len(epoch.datapoints)}),
       includedCount |-> includedCount,
       excludedCount |-> excludedCount,
       pendingCount |-> Len(epoch.datapoints) - includedCount,
       activeOperators |-> Max(0, totalOperators - inactiveCount),
       inactiveCount |-> inactiveCount,
       totalOperators |-> totalOperators,
       chartDots |-> buildChartDots(operatorUniverse, datapointsByAddress)]

buildEpochRenderStats(epoch, roster) ==
  LET includedCount == CountStatus(epoch.datapoints, "included")
      excludedCount == CountStatus(epoch.datapoints, "excluded")
      datapointsByAddress == buildDatapointsByAddress(epoch.datapoints)
      operatorUniverse == operatorUniverseOf(roster, datapointsByAddress)
      inactiveCount == inactiveCountOf(operatorUniverse, datapointsByAddress)
      totalOperators == Len(operatorUniverse)
  IN  [uniqueOracles |-> Cardinality({epoch.datapoints[i].oracleAddress :
                                        i \in 1..Len(epoch.datapoints)}),
       includedCount |-> includedCount,
       excludedCount |-> excludedCount,
       pendingCount |-> Len(epoch.datapoints) - includedCount - excludedCount,
       activeOperators |-> Max(0, totalOperators - inactiveCount),
       inactiveCount |-> inactiveCount,
       totalOperators |-> totalOperators,
       chartDots |-> buildChartDots(operatorUniverse, datapointsByAddress)]

(***************************************************************************)
(* Merge runs: loadPage calls made one after the other, each resolved      *)
(* before the next starts, over every page a node can answer with boxes    *)
(* drawn from a small universe.  A page of datapoints is as                *)
(* fetchDatapointPage returns it: one record per boxId, ordered by         *)
(* blockHeight descending.                                                 *)
(***************************************************************************)
Datapoint(boxId, blockHeight, globalIndex, epochId, oracleAddress, spentTransactionId) ==
  [boxId |-> boxId, blockHeight |-> blockHeight, globalIndex |-> globalIndex,
   epochId |-> epochId, oracleAddress |-> oracleAddress,
   spentTransactionId |-> spentTransactionId, poolId |-> DEFAULT_POOL_ID]

Marker(boxId, txId, blockHeight, globalIndex) ==
  [boxId |-> boxId, txId |-> txId, blockHeight |-> blockHeight, globalIndex |-> globalIndex]

DistinctBoxIds(page) == \A i, j \in 1..Len(page) : i # j => page[i].boxId # page[j].boxId

HeightDescending(page) == \A i \in 1..Len(page) - 1 : page[i].blockHeight >= page[i + 1].blockHeight

SeqsUpTo(S, n) == UNION {[1..k -> S] : k \in 0..n}

DatapointPagesOf(records) ==
  {page \in SeqsUpTo(records, MaxPageLen) : DistinctBoxIds(page) /\ HeightDescending(page)}

MarkerPagesOf(markers) == {page \in SeqsUpTo(markers, MaxPageLen) : DistinctBoxIds(page)}

PageResult(pageData, refreshBoxes) ==
  [datapoints |-> pageData, refreshBoxes |-> refreshBoxes,
   totals |-> [oracle |-> Len(pageData), datapoint |-> Len(pageData)],
   pageCounts |-> [oracle |-> Len(pageData), datapoint |-> Len(pageData)]]

\* the try block of loadPage after its await, and the finally block:
\* fetchDatapointPage has resolved with `result`
loadPageTry(nextPage, replace, result) ==
  /\ totalTransactions' = Some(Max(result.totals.oracle, result.totals.datapoint))
  /\ lastFetchedCount' = Max(result.pageCounts.oracle, result.pageCounts.datapoint)
  /\ datapoints' = setDatapoints(datapoints, result.datapoints, replace)
  /\ refreshMarkers' = setRefreshMarkers(refreshMarkers, result.refreshBoxes, replace)
  /\ currentPage' = nextPage
  /\ isLoading' = FALSE

\* loadPage(nextPage, replace) from its call to the end of its finally block,
\* fetchDatapointPage having resolved with `result`
loadPage(nextPage, replace, result) ==
  /\ loadPageTry(nextPage, replace, result)
  /\ error' = Null
  /\ UNCHANGED <<mounted, selectedPoolId, latestNodeHeight, fetches, livePoll, stalePolls,
                 sideVars>>

\* two boxes of one epoch seen at either height, with or without an index,
\* unspent or spent by TX1; one refresh box, seen with its index at one
\* height or without it at the next
MergeDatapoints ==
  {Datapoint(b, h, g, 10, IF b = "b1" THEN "A" ELSE "B", s) :
     b \in {"b1", "b2"}, h \in {100, 101}, g \in {None, Some(1), Some(2)},
     s \in {Undefined, "TX1"}}

MergeMarkers == {Marker("r1", "TX1", 102, Some(1)), Marker("r1", "TX1", 103, None)}

MergePages == DatapointPagesOf(MergeDatapoints)

MergeMarkerPages == MarkerPagesOf(MergeMarkers)

\* loadPage(currentPage + 1) and its page
MergeLoad(pageData, refreshBoxes) ==
  /\ currentPage < MaxPage
  /\ loadPage(currentPage + 1, FALSE, PageResult(pageData, refreshBoxes))
  /\ UNCHANGED desiredEpochs

\* refresh(): loadPage(0, true) and its page
MergeRefresh(pageData, refreshBoxes) ==
  /\ desiredEpochs' = MIN_VISIBLE_EPOCHS
  /\ loadPage(0, TRUE, PageResult(pageData, refreshBoxes))

NextMerge ==
  \/ \E pageData \in MergePages, refreshBoxes \in MergeMarkerPages :
       MergeLoad(pageData, refreshBoxes)
  \/ \E pageData \in MergePages, refreshBoxes \in MergeMarkerPages :
       MergeRefresh(pageData, refreshBoxes)

SpecMerge == Init /\ [][NextMerge]_vars

(***************************************************************************)
(* Classification runs: the same loads over boxes of two epochs, unspent   *)
(* or spent by one of two transactions, and the refresh boxes of both.     *)
(***************************************************************************)
ClassifyDatapoints ==
  {Datapoint("b1", 100, None, e, "A", s) : e \in {10, 11}, s \in {Undefined, "TX1", "TX2"}}
    \cup
  {Datapoint("b2", 101, None, e, "B", s) : e \in {10, 11}, s \in {Undefined, "TX1", "TX2"}}

ClassifyMarkers == {Marker("r1", "TX1", 102, None), Marker("r2", "TX2", 103, None)}

ClassifyPages == DatapointPagesOf(ClassifyDatapoints)

ClassifyMarkerPages == MarkerPagesOf(ClassifyMarkers)

ClassifyLoad(pageData, refreshBoxes) ==
  /\ currentPage < MaxPage
  /\ loadPage(currentPage + 1, FALSE, PageResult(pageData, refreshBoxes))
  /\ UNCHANGED desiredEpochs

ClassifyRefresh(pageData, refreshBoxes) ==
  /\ desiredEpochs' = MIN_VISIBLE_EPOCHS
  /\ loadPage(0, TRUE, PageResult(pageData, refreshBoxes))

NextClassify ==
  \/ \E pageData \in ClassifyPages, refreshBoxes \in ClassifyMarkerPages :
       ClassifyLoad(pageData, refreshBoxes)
  \/ \E pageData \in ClassifyPages, refreshBoxes \in ClassifyMarkerPages :
       ClassifyRefresh(pageData, refreshBoxes)

SpecClassify == Init /\ [][NextClassify]_vars

(***************************************************************************)
(* Range runs: the same loads over the boxes of four consecutive epochs of  *)
(* one chain.  The datapoints of epoch e are posted after the refresh of    *)
(* epoch e - 1 and spent by the refresh of epoch e, whose box is the marker *)
(* of that transaction; d10 is posted for epoch 10 just after its refresh   *)
(* and is never collected.  Which epochs are closed in the derived list     *)
(* depends on the markers the loaded pages have brought.                    *)
(***************************************************************************)
RangeDatapoints ==
  {Datapoint("c9", 90, None, 9, "A", "TX9"),
   Datapoint("c10", 100, None, 10, "A", "TX10"),
   Datapoint("d10", 106, None, 10, "B", Undefined),
   Datapoint("c11", 110, None, 11, "A", "TX11"),
   Datapoint("c12", 120, None, 12, "A", "TX12"),
   Datapoint("c12", 120, None, 12, "A", Undefined)}

RangeMarkers ==
  {Marker("m9", "TX9", 95, None), Marker("m10", "TX10", 105, None),
   Marker("m11", "TX11", 115, None), Marker("m12", "TX12", 125, None)}

RangePages == DatapointPagesOf(RangeDatapoints)

\* at most one refresh box in a page
RangeMarkerPages == {page \in MarkerPagesOf(RangeMarkers) : Len(page) <= 1}

RangeLoad(pageData, refreshBoxes) ==
  /\ currentPage < MaxPage
  /\ loadPage(currentPage + 1, FALSE, PageResult(pageData, refreshBoxes))
  /\ UNCHANGED desiredEpochs

RangeRefresh(pageData, refreshBoxes) ==
  /\ desiredEpochs' = MIN_VISIBLE_EPOCHS
  /\ loadPage(0, TRUE, PageResult(pageData, refreshBoxes))

NextRange ==
  \/ \E pageData \in RangePages, refreshBoxes \in RangeMarkerPages :
       RangeLoad(pageData, refreshBoxes)
  \/ \E pageData \in RangePages, refreshBoxes \in RangeMarkerPages :
       RangeRefresh(pageData, refreshBoxes)

SpecRange == Init /\ [][NextRange]_vars

(***************************************************************************)
(* Merge-order runs: three pages A, B, C are merged into an empty state    *)
(* as [A, B] then [C] and, side by side, as [C] then [A, B].               *)
(***************************************************************************)
OrderPages == {page \in MergePages : Len(page) <= 1}

OrderLeftSequence == <<1, 2, 3>>

OrderRightSequence == <<3, 1, 2>>

InitOrder ==
  /\ InitSide
  /\ mounted = FALSE
  /\ selectedPoolId = DEFAULT_POOL_ID
  /\ datapoints = <<>>
  /\ refreshMarkers = <<>>
  /\ currentPage = 0
  /\ isLoading = FALSE
  /\ error = Null
  /\ totalTransactions = None
  /\ lastFetchedCount = 0
  /\ desiredEpochs = MIN_VISIBLE_EPOCHS
  /\ latestNodeHeight = None
  /\ fetches = EmptyBag
  /\ livePoll = None
  /\ stalePolls = EmptyBag
  /\ orderPages \in [1..3 -> OrderPages]
  /\ orderLeft = <<>>
  /\ orderRight = <<>>
  /\ orderStep = 0

OrderMerge ==
  /\ orderStep < 3
  /\ orderStep' = orderStep + 1
  /\ orderLeft' = setDatapoints(orderLeft, orderPages[OrderLeftSequence[orderStep + 1]], FALSE)
  /\ orderRight' = setDatapoints(orderRight, orderPages[OrderRightSequence[orderStep + 1]], FALSE)
  /\ UNCHANGED <<orderPages, datapoints, refreshMarkers, driverVars, auxVars, statsVars,
                 nodeResponse, unspentVars>>

NextOrder == OrderMerge

SpecOrder == InitOrder /\ [][NextOrder]_vars

(***************************************************************************)
(* Statistics runs: the epochStats memo computed, and computed again, over *)
(* a state holding one merged page of boxes and a roster.  b1 and b2 may   *)
(* share reporter, height and the lack of an index; b1 may sit at height   *)
(* 0, the height an inactive dot counts as; D never is on a roster.  A     *)
(* roster is as fetchOperatorAddresses returns it, the keys of a Map:      *)
(* no address twice.                                                       *)
(***************************************************************************)
MaxRenders == 2

MaxRosterLen == 3

StatsDatapoints ==
  {Datapoint("b1", h, g, 10, "A", Undefined) : h \in {0, 100}, g \in {None, Some(1)}}
    \cup
  {Datapoint("b2", 100, g, 10, a, Undefined) : g \in {None, Some(2)}, a \in {"A", "B"}}
    \cup
  {Datapoint("b3", 100, None, e, "D", Undefined) : e \in {10, 11}}

StatsPages == {page \in SeqsUpTo(StatsDatapoints, 3) : DistinctBoxIds(page)}

StatsRosters ==
  {roster \in SeqsUpTo({"A", "B", "C"}, MaxRosterLen) :
     \A i, j \in 1..Len(roster) : i # j => roster[i] # roster[j]}

InitStats ==
  /\ operatorAddresses \in StatsRosters
  /\ datapoints \in {dedupeByBoxId(page) : page \in StatsPages}
  /\ oraclePoolValue = None
  /\ auxFetches = {}
  /\ epochStats = <<>>
  /\ renders = 0
  /\ nodeResponse = <<>>
  /\ unspentSource = <<>>
  /\ unspentLoop = <<>>
  /\ mounted = FALSE
  /\ selectedPoolId = DEFAULT_POOL_ID
  /\ refreshMarkers = <<>>
  /\ currentPage = 0
  /\ isLoading = FALSE
  /\ error = Null
  /\ totalTransactions = None
  /\ lastFetchedCount = 0
  /\ desiredEpochs = MIN_VISIBLE_EPOCHS
  /\ latestNodeHeight = None
  /\ fetches = EmptyBag
  /\ livePoll = None
  /\ stalePolls = EmptyBag
  /\ orderPages = <<>>
  /\ orderLeft = <<>>
  /\ orderRight = <<>>
  /\ orderStep = 0

\* the epochStats memo: buildEpochRenderStats of every derived epoch with the
\* roster of the render, kept by the position of the epoch in the list
StatsRender ==
  /\ renders < MaxRenders
  /\ renders' = renders + 1
  /\ epochStats' = LET epochs == epochsWithStatus(datapoints, refreshMarkers)
                   IN  [e \in 1..Len(epochs) |->
                          buildEpochRenderStats(epochs[e], operatorAddresses)]
  /\ UNCHANGED <<datapoints, refreshMarkers, driverVars, orderVars, auxVars, nodeResponse, unspentVars>>

NextStats == StatsRender

SpecStats == InitStats /\ [][NextStats]_vars

(***************************************************************************)
(* Page runs: loadPage calls made one after the other against a node that  *)
(* answers each request with the same boxes: five datapoint boxes of which *)
(* at most MaxFaulty do not decode, one box of the oracle list (the pool   *)
(* box, whose R4 is no key, or a second copy of the first datapoint box)   *)
(* and two refresh boxes, the first with R4 decodable, missing or          *)
(* malformed.                                                              *)
(***************************************************************************)
MaxFaulty == 2

PageBoxCount == 5

RawBox(boxId, transactionId, blockHeight, R4, R5, R6, address, epochId) ==
  [boxId |-> boxId, transactionId |-> transactionId, blockHeight |-> blockHeight,
   globalIndex |-> None, spentTransactionId |-> Undefined,
   R4 |-> R4, R5 |-> R5, R6 |-> R6, address |-> address, epochId |-> epochId]

BoxFaults == {"none", "malformed key", "missing value"}

DatapointBox(i, fault) ==
  RawBox("p" \o ToString(i), "t" \o ToString(i), 100 + i,
         IF fault = "malformed key" THEN "malformed" ELSE "key",
         "valid",
         IF fault = "missing value" THEN "missing" ELSE "valid",
         IF i % 2 = 1 THEN "A" ELSE "B", 10)

DatapointItems ==
  {[i \in 1..PageBoxCount |-> DatapointBox(i, faults[i])] :
     faults \in {f \in [1..PageBoxCount -> BoxFaults] :
                   Cardinality({i \in 1..PageBoxCount : f[i] # "none"}) <= MaxFaulty}}

OracleItems ==
  {<<RawBox("o1", "u1", 99, "long", "valid", "missing", Undefined, 10)>>,
   <<RawBox("o1", "u1", 99, "long", "valid", "valid", Undefined, 10)>>,
   <<DatapointBox(1, "none")>>}

RefreshItems ==
  {<<RawBox("r1", "TX1", 110, r4, "valid", "missing", Undefined, 10),
     RawBox("r2", "TX2", 111, "long", "valid", "missing", Undefined, 11)>> :
     r4 \in {"long", "missing", "malformed"}}

PageResponses ==
  {[oracleBoxes |-> [items |-> o, total |-> Len(o)],
    datapointBoxes |-> [items |-> d, total |-> Len(d)],
    refreshBoxes |-> [items |-> r, total |-> Len(r)]] :
     o \in OracleItems, d \in DatapointItems, r \in RefreshItems}

InitPage ==
  /\ nodeResponse \in PageResponses
  /\ unspentSource = <<>>
  /\ unspentLoop = <<>>
  /\ operatorAddresses = <<>>
  /\ oraclePoolValue = None
  /\ auxFetches = {}
  /\ epochStats = <<>>
  /\ renders = 0
  /\ mounted = FALSE
  /\ selectedPoolId = DEFAULT_POOL_ID
  /\ datapoints = <<>>
  /\ refreshMarkers = <<>>
  /\ currentPage = 0
  /\ isLoading = FALSE
  /\ error = Null
  /\ totalTransactions = None
  /\ lastFetchedCount = 0
  /\ desiredEpochs = MIN_VISIBLE_EPOCHS
  /\ latestNodeHeight = None
  /\ fetches = EmptyBag
  /\ livePoll = None
  /\ stalePolls = EmptyBag
  /\ orderPages = <<>>
  /\ orderLeft = <<>>
  /\ orderRight = <<>>
  /\ orderStep = 0

\* loadPage from its call to the end of its finally block, fetchDatapointPage
\* having rejected: the catch block stores the message
loadPageFailed(message) ==
  /\ error' = message
  /\ isLoading' = FALSE
  /\ UNCHANGED <<datapoints, refreshMarkers, currentPage, totalTransactions,
                 lastFetchedCount, mounted, selectedPoolId, latestNodeHeight, fetches,
                 livePoll, stalePolls, sideVars>>

loadPageOutcome(nextPage, replace, outcome) ==
  IF outcome.rejected
  THEN loadPageFailed("register decoding failed")
  ELSE loadPage(nextPage, replace, outcome.result)

PageNext ==
  /\ currentPage < MaxPage
  /\ loadPageOutcome(currentPage + 1, FALSE, decodePage(selectedPoolId, nodeResponse))
  /\ UNCHANGED desiredEpochs

PageRefresh ==
  /\ desiredEpochs' = MIN_VISIBLE_EPOCHS
  /\ loadPageOutcome(0, TRUE, decodePage(selectedPoolId, nodeResponse))

NextPage ==
  \/ PageNext
  \/ PageRefresh

SpecPage == InitPage /\ [][NextPage]_vars

(***************************************************************************)
(* Refresh runs: the chain grows, each poll that sees a new fullHeight      *)
(* calls refresh() without waiting for the loads in flight, and the node    *)
(* answers each first-page request with the newest datapoint box as of the  *)
(* height at which the request was issued. Responses complete in any order. *)
(***************************************************************************)
RaceHeights == 700..704

\* the first-page request of a refresh() called at a height
RaceFetch(height) ==
  [pool |-> DEFAULT_POOL_ID, page |-> 0, replace |-> TRUE, caller |-> "refresh",
   height |-> height]

\* the node's first page as of a height
RaceResult(height) ==
  PageResult(<<Datapoint("d" \o ToString(height), height, Some(height), height - 690,
                         "A", Undefined)>>, <<>>)

\* poll(): fullHeight differs from lastHeight, so setLatestNodeHeight and
\* refresh(), whose loadPage(0, true) sets isLoading, clears error and awaits
RaceRefresh(height) ==
  /\ IF latestNodeHeight = None THEN TRUE ELSE height > latestNodeHeight[1]
  /\ BagCardinality(fetches) < MaxInFlight
  /\ latestNodeHeight' = Some(height)
  /\ desiredEpochs' = MIN_VISIBLE_EPOCHS
  /\ isLoading' = TRUE
  /\ error' = Null
  /\ fetches' = fetches (+) SetToBag({RaceFetch(height)})
  /\ UNCHANGED <<datapoints, refreshMarkers, currentPage, totalTransactions,
                 lastFetchedCount, mounted, selectedPoolId, livePoll, stalePolls, sideVars>>

\* the response of a request arrives and loadPage applies it
RaceResolve(f) ==
  /\ BagIn(f, fetches)
  /\ loadPageTry(f.page, f.replace, RaceResult(f.height))
  /\ fetches' = fetches (-) SetToBag({f})
  /\ UNCHANGED <<error, desiredEpochs, mounted, selectedPoolId, latestNodeHeight,
                 livePoll, stalePolls, sideVars>>

\* a request rejects and the catch block stores the message
RaceReject(f) ==
  /\ BagIn(f, fetches)
  /\ error' = "Ergo node error"
  /\ isLoading' = FALSE
  /\ fetches' = fetches (-) SetToBag({f})
  /\ UNCHANGED <<datapoints, refreshMarkers, currentPage, totalTransactions,
                 lastFetchedCount, desiredEpochs, mounted, selectedPoolId,
                 latestNodeHeight, livePoll, stalePolls, sideVars>>

NextRace ==
  \/ \E height \in RaceHeights : RaceRefresh(height)
  \/ \E f \in BagToSet(fetches) : RaceResolve(f)
  \/ \E f \in BagToSet(fetches) : RaceReject(f)

SpecRace == Init /\ [][NextRace]_vars

(***************************************************************************)
(* Unspent-box runs: fetchAllUnspentBoxesByTokenId against a node that      *)
(* holds a finite list of boxes and answers the request (offset, limit)     *)
(* with the boxes from offset on, at most `cap` of them, as a bare array,   *)
(* as an object with a total (which need not be the length of the list) or  *)
(* as an object without one.  A box is its position in the list.            *)
(***************************************************************************)
UnspentPageSize == 2

MaxSourceLen == 4

UnspentSources ==
  {[count |-> c, style |-> "array", total |-> None, cap |-> k] :
     c \in 0..MaxSourceLen, k \in 1..UnspentPageSize}
    \cup
  {[count |-> c, style |-> "object", total |-> None, cap |-> k] :
     c \in 0..MaxSourceLen, k \in 1..UnspentPageSize}
    \cup
  {[count |-> c, style |-> "object", total |-> Some(t), cap |-> k] :
     c \in 0..MaxSourceLen, t \in 0..(MaxSourceLen + 1), k \in 1..UnspentPageSize}

\* fetchUnspentBoxesByTokenId(nodeUrl, tokenId, offset, limit), resolved
fetchUnspentBoxesByTokenId(source, offset, limit) ==
  LET last == Min(source.count, offset + Min(limit, source.cap))
  IN  [isArray |-> source.style = "array",
       items |-> [i \in 1..Max(0, last - offset) |-> offset + i],
       total |-> source.total]

\* an offset advanced by the page size asked for
nextOffset_byPageSize(offset, pageLength, pageSize) == offset + pageSize

\* offset += pageLength
nextOffset(offset, pageLength, pageSize) == offset + pageLength

\* the break condition of the loop, on the response and the items collected
\* with it: response.total ?? items.length is the total
unspentBreak(responseRaw, items) ==
  LET pageLength == Len(responseRaw.items)
      total == IF responseRaw.isArray THEN Len(responseRaw.items)
               ELSE IF responseRaw.total # None THEN responseRaw.total[1]
               ELSE Len(items)
  IN  responseRaw.isArray \/ pageLength = 0 \/ Len(items) >= total

InitUnspent ==
  /\ mounted = FALSE
  /\ selectedPoolId = DEFAULT_POOL_ID
  /\ datapoints = <<>>
  /\ refreshMarkers = <<>>
  /\ currentPage = 0
  /\ isLoading = FALSE
  /\ error = Null
  /\ totalTransactions = None
  /\ lastFetchedCount = 0
  /\ desiredEpochs = MIN_VISIBLE_EPOCHS
  /\ latestNodeHeight = None
  /\ fetches = EmptyBag
  /\ livePoll = None
  /\ stalePolls = EmptyBag
  /\ orderPages = <<>>
  /\ orderLeft = <<>>
  /\ orderRight = <<>>
  /\ orderStep = 0
  /\ operatorAddresses = <<>>
  /\ oraclePoolValue = None
  /\ auxFetches = EmptyBag
  /\ epochStats = <<>>
  /\ renders = 0
  /\ nodeResponse = <<>>
  /\ unspentSource \in UnspentSources
  /\ unspentLoop = [pc |-> "awaiting", items |-> <<>>, offset |-> 0, requests |-> <<0>>,
                    pages |-> <<>>]

\* one pass of the loop body from the resolved await to the break or to the
\* next await; `requests` and `pages` record the offsets asked for and the
\* lengths of the pages received
UnspentResponse ==
  /\ unspentLoop.pc = "awaiting"
  /\ LET responseRaw == fetchUnspentBoxesByTokenId(unspentSource, unspentLoop.offset,
                                                   UnspentPageSize)
         items == unspentLoop.items \o responseRaw.items
         pageLength == Len(responseRaw.items)
         pages == Append(unspentLoop.pages, pageLength)
     IN  IF unspentBreak(responseRaw, items)
         THEN unspentLoop' = [unspentLoop EXCEPT !.pc = "returned", !.items = items,
                                                 !.pages = pages]
         ELSE LET offset == nextOffset(unspentLoop.offset, pageLength, UnspentPageSize)
              IN  unspentLoop' = [unspentLoop EXCEPT
                                    !.items = items, !.pages = pages, !.offset = offset,
                                    !.requests = Append(unspentLoop.requests, offset)]
  /\ UNCHANGED <<datapoints, refreshMarkers, driverVars, orderVars, auxVars, statsVars,
                 nodeResponse, unspentSource>>

\* the awaited request rejects: fetchJson throws and the function rejects
UnspentFailure ==
  /\ unspentLoop.pc = "awaiting"
  /\ unspentLoop' = [unspentLoop EXCEPT !.pc = "thrown"]
  /\ UNCHANGED <<datapoints, refreshMarkers, driverVars, orderVars, auxVars, statsVars,
                 nodeResponse, unspentSource>>

NextUnspent ==
  \/ UnspentResponse
  \/ UnspentFailure

SpecUnspent == InitUnspent /\ [][NextUnspent]_vars

\* every request the loop awaits is answered or fails
SpecUnspentFair == SpecUnspent /\ WF_vars(NextUnspent)

(***************************************************************************)
(* Properties.                                                             *)
(***************************************************************************)
Epochs == epochsWithStatus(datapoints, refreshMarkers)

\* C1 (SpecClassify): in every epoch derived from the cumulative state, a
\* datapoint of an epoch with a resolved closing marker is 'included' when its
\* spentTransactionId is the marker's txId and 'excluded' otherwise, unspent
\* ones too; in an epoch without one it is 'excluded' when spent and
\* 'pending' when unspent.
C1_ClassificationRule ==
  \A e \in 1..Len(Epochs) : \A i \in 1..Len(Epochs[e].datapoints) :
    LET epoch == Epochs[e]
        dp == epoch.datapoints[i]
    IN  IF epoch.refreshMarker # None
        THEN dp.refreshStatus = (IF dp.spentTransactionId = epoch.refreshMarker[1].txId
                                 THEN "included" ELSE "excluded")
        ELSE dp.refreshStatus = (IF dp.spentTransactionId # Undefined
                                 THEN "excluded" ELSE "pending")

\* a closed epoch holding an included and an unspent datapoint, next to an
\* open epoch, after a merge
C1_Witness ==
  /\ currentPage > 0
  /\ \E e \in 1..Len(Epochs) :
       /\ Epochs[e].refreshMarker # None
       /\ \E i, j \in 1..Len(Epochs[e].datapoints) :
            /\ Epochs[e].datapoints[i].refreshStatus = "included"
            /\ Epochs[e].datapoints[j].spentTransactionId = Undefined

ScenarioA == Datapoint("b1", 100, None, 10, "A", "TX1")

ScenarioB == Datapoint("b2", 101, None, 10, "B", Undefined)

ScenarioMarker == Marker("r1", "TX1", 102, None)

\* the cumulative state after the page <<B, A>> with the marker has been merged
ScenarioMerged ==
  /\ totalTransactions # None
  /\ datapoints = <<ScenarioB, ScenarioA>>
  /\ refreshMarkers = <<ScenarioMarker>>

ScenarioEpoch10 == SelectSeq(Epochs, LAMBDA e : e.epochId = 10)[1]

\* C2 as stated (SpecClassify): after the page with A (height 100, spent by
\* TX1), B (height 101, unspent) and the marker TX1 at height 102 is merged,
\* epoch 10 has A 'included', B 'pending' and endBlock 102.
C2_ScenarioAsStated ==
  ScenarioMerged =>
    /\ ScenarioEpoch10.endBlock = Some(102)
    /\ \E i, j \in 1..Len(ScenarioEpoch10.datapoints) :
         /\ ScenarioEpoch10.datapoints[i].boxId = "b1"
         /\ ScenarioEpoch10.datapoints[i].refreshStatus = "included"
         /\ ScenarioEpoch10.datapoints[j].boxId = "b2"
         /\ ScenarioEpoch10.datapoints[j].refreshStatus = "pending"

\* C2 amended (SpecClassify): after that merge epoch 10 has A 'included',
\* B 'excluded' (the epoch is closed by TX1 and B was not spent by it) and
\* endBlock 102.
C2_ScenarioAmended ==
  ScenarioMerged =>
    /\ ScenarioEpoch10.endBlock = Some(102)
    /\ \E i, j \in 1..Len(ScenarioEpoch10.datapoints) :
         /\ ScenarioEpoch10.datapoints[i].boxId = "b1"
         /\ ScenarioEpoch10.datapoints[i].refreshStatus = "included"
         /\ ScenarioEpoch10.datapoints[j].boxId = "b2"
         /\ ScenarioEpoch10.datapoints[j].refreshStatus = "excluded"

\* the scenario's page merged as the first page of a run
C2_Witness == ScenarioMerged /\ currentPage = 0 /\ lastFetchedCount = 2

\* C3 (SpecMerge): whatever the cumulative state and the page, merging the
\* page a second time leaves the datapoint list and the marker list as the
\* first merge left them, element for element.
C3_MergeIdempotent ==
  /\ \A pageData \in MergePages :
       LET once == setDatapoints(datapoints, pageData, FALSE)
       IN  setDatapoints(once, pageData, FALSE) = once
  /\ \A refreshBoxes \in MergeMarkerPages :
       LET once == setRefreshMarkers(refreshMarkers, refreshBoxes, FALSE)
       IN  setRefreshMarkers(once, refreshBoxes, FALSE) = once

\* a state built by two merges that holds both boxes and the marker, at equal
\* height and index so that their order rests on the sort's stability
C3_Witness ==
  /\ currentPage = 2
  /\ Len(datapoints) = 2
  /\ sortByBlockDesc(datapoints[1], datapoints[2]) = 0
  /\ refreshMarkers # <<>>

\* C4 (SpecOrder): pages A, B, C merged as [A, B] then [C] leave the same set
\* of datapoint records as [C] then [A, B].
C4_MergeOrderIndependent ==
  orderStep = 3 => Range(orderLeft) = Range(orderRight)

StoredAt(dps, boxId) == SelectSeq(dps, LAMBDA d : d.boxId = boxId)[1]

\* C5 (SpecMerge): when a stored boxId is observed again, the merge keeps the
\* occurrence with the higher globalIndex and, the indexes being equal, the
\* one that has a spentTransactionId.
C5_HigherIndexThenSpentKept ==
  \A i \in 1..Len(datapoints) : \A incoming \in MergeDatapoints :
    LET stored == datapoints[i]
        kept == StoredAt(setDatapoints(datapoints, <<incoming>>, FALSE), stored.boxId)
    IN  (incoming.boxId = stored.boxId
         /\ incoming.globalIndex # None /\ stored.globalIndex # None) =>
          /\ incoming.globalIndex[1] > stored.globalIndex[1] => kept = incoming
          /\ incoming.globalIndex[1] < stored.globalIndex[1] => kept = stored
          /\ (incoming.globalIndex = stored.globalIndex
              /\ incoming.spentTransactionId # Undefined
              /\ stored.spentTransactionId = Undefined) => kept = incoming
          /\ (incoming.globalIndex = stored.globalIndex
              /\ stored.spentTransactionId # Undefined
              /\ incoming.spentTransactionId = Undefined) => kept = stored

\* C6 (SpecMerge): a non-replacing merge keeps every stored boxId, and a
\* record whose spentTransactionId was set has it set afterwards.
C6_SpentNeverUnset ==
  [][currentPage' = currentPage + 1 =>
       \A i \in 1..Len(datapoints) : \E j \in 1..Len(datapoints') :
         /\ datapoints'[j].boxId = datapoints[i].boxId
         /\ datapoints[i].spentTransactionId # Undefined
              => datapoints'[j].spentTransactionId # Undefined]_vars

\* page fetches in flight for one pool
InFlightFor(pool) ==
  BagCardinality([f \in {g \in BagToSet(fetches) : g.pool = pool} |-> fetches[f]])

\* C7 (Spec): no two page fetches are ever in flight for the same pool.
C7_OneFetchPerPool == \A pool \in ORACLE_POOLS : InFlightFor(pool) <= 1

\* C8 (Spec): a poll that resolves after its loop was cancelled by a pool
\* switch sets no latestNodeHeight and starts no page load.
C8_StalePollAppliesNothing ==
  [][BagCardinality(stalePolls') < BagCardinality(stalePolls) =>
       /\ latestNodeHeight' = latestNodeHeight
       /\ fetches' = fetches]_vars

SourcePages == 0..(SourceTotal \div DATAPOINT_PAGE_SIZE)

\* C9 (Spec): the cumulative datapoints and markers are records of the
\* selected pool only.
C9_OnlySelectedPoolRecords ==
  /\ \A i \in 1..Len(datapoints) : datapoints[i].poolId = selectedPoolId
  /\ \A i \in 1..Len(refreshMarkers) :
       refreshMarkers[i] \in {NodeMarker(selectedPoolId, page) : page \in SourcePages}

\* loadPage calls made by the auto-continuation effect and still in flight
AutoLoads(bag) ==
  BagCardinality([f \in {g \in BagToSet(bag) : g.caller = "auto"} |-> bag[f]])

\* C10 (Spec): a rejected page fetch leaves an error message and isLoading
\* false, leaves datapoints, markers and currentPage as they were, and no
\* step taken while an error is shown starts an auto-continuation load.
C10_FetchFailure ==
  [][/\ (\E f \in BagToSet(fetches) : FetchReject(f)) =>
          /\ error' # Null
          /\ isLoading' = FALSE
          /\ UNCHANGED <<datapoints, refreshMarkers, currentPage>>
     /\ error # Null => AutoLoads(fetches') <= AutoLoads(fetches)]_vars

\* an error shown over merged data, with fewer epochs visible than desired
\* and pages left on the node
C10_Witness ==
  /\ error # Null
  /\ ~isLoading
  /\ datapoints # <<>>
  /\ Len(visibleEpochs(Epochs, desiredEpochs)) < desiredEpochs
  /\ hasMore(Null, totalTransactions, currentPage, lastFetchedCount)

\* hasMore of the rendered state
HasMoreNow == hasMore(error, totalTransactions, currentPage, lastFetchedCount)

\* C11 (Spec): hasMore is false under an error; with no error and pages up to
\* currentPage = k loaded from a node that reports SourceTotal = T boxes in
\* pages of P, hasMore is true exactly when (k + 1) * P < T or page k held
\* exactly P boxes; with T = 250 and P = 100 it is true after the second page
\* and false after the third page, of 50.
C11_HasMoreRule ==
  /\ error # Null => ~HasMoreNow
  /\ (error = Null /\ totalTransactions # None) =>
       /\ HasMoreNow <=> \/ (currentPage + 1) * DATAPOINT_PAGE_SIZE < SourceTotal
                         \/ PageCount(currentPage) = DATAPOINT_PAGE_SIZE
       /\ totalTransactions = Some(SourceTotal)
       /\ lastFetchedCount = PageCount(currentPage)
       /\ (SourceTotal = 250 /\ currentPage = 1) => HasMoreNow
       /\ (SourceTotal = 250 /\ currentPage = 2) => lastFetchedCount = 50 /\ ~HasMoreNow

\* the third page, shorter than a full one, has been applied without an error
C11_Witness ==
  /\ error = Null
  /\ totalTransactions # None
  /\ currentPage = 2
  /\ lastFetchedCount < DATAPOINT_PAGE_SIZE
  /\ ~HasMoreNow

\* visibleEpochs.length of the rendered state
VisibleNow == Len(visibleEpochs(Epochs, desiredEpochs))

\* the loadPage calls a step starts
Started(caller) ==
  LET new == fetches' (-) fetches
  IN  {f \in BagToSet(new) : f.caller = caller}

\* a reset or a scroll: refresh() is called or desiredEpochs changes
ResetStep == Started("refresh") # {} \/ desiredEpochs' # desiredEpochs

\* nothing in flight and nothing left for the auto-continuation to ask for
Quiet ==
  /\ mounted /\ fetches = EmptyBag /\ ~isLoading
  /\ VisibleNow >= desiredEpochs \/ ~HasMoreNow \/ error # Null

\* C12 (SpecFair): once the effects run, no state is left with fewer visible
\* epochs than desired, hasMore and no load in progress: the step that
\* produces such values requests page currentPage + 1 of the selected pool,
\* once, and no other step makes an automatic request; and unless resets and
\* scrolls go on forever, the driver comes to rest with nothing in flight and
\* the visible epochs at the desired number, or hasMore false, or an error.
C12_AutoContinuation ==
  /\ [](mounted => ~autoContinue(datapoints, refreshMarkers, desiredEpochs, error,
                                 totalTransactions, currentPage, lastFetchedCount, isLoading))
  /\ [][/\ Started("auto") \in {{}, {PageFetch(selectedPoolId', currentPage' + 1, FALSE, "auto")}}
        /\ \A f \in Started("auto") : (fetches' (-) fetches)[f] = 1
        /\ Started("auto") # {} =>
             /\ Len(visibleEpochs(epochsWithStatus(datapoints', refreshMarkers'), desiredEpochs'))
                  < desiredEpochs'
             /\ hasMore(error', totalTransactions', currentPage', lastFetchedCount')]_vars
  /\ (<>[]Quiet) \/ ([]<><<ResetStep>>_vars)

\* the auto-continuation has walked to the last page and come to rest there
C12_Witness ==
  /\ Quiet
  /\ currentPage = 2
  /\ Len(datapoints) = 3
  /\ error = Null

\* C13 (Spec): the step of a reset, one that calls refresh() (after a pool
\* switch, or from the poll), leaves the cumulative datapoints and markers
\* empty, currentPage at 0 and isLoading true, before the response of its
\* page fetch is applied.
C13_ResetClearsState ==
  [][Started("refresh") # {} =>
       /\ datapoints' = <<>>
       /\ refreshMarkers' = <<>>
       /\ currentPage' = 0
       /\ isLoading']_vars

\* C14 (SpecClassify): for every derived epoch, the placeholder too, the
\* included, excluded and pending counts are non-negative and add up to the
\* number of datapoints of the epoch, and the pending count is the number of
\* datapoints whose status is 'pending'.
C14_CountsComplete ==
  \A e \in 1..Len(Epochs) :
    LET stats == buildEpochRenderStats(Epochs[e], operatorAddresses)
        pending == {i \in 1..Len(Epochs[e].datapoints) :
                      Epochs[e].datapoints[i].refreshStatus = "pending"}
    IN  /\ stats.includedCount >= 0 /\ stats.excludedCount >= 0 /\ stats.pendingCount >= 0
        /\ stats.includedCount + stats.excludedCount + stats.pendingCount
             = Len(Epochs[e].datapoints)
        /\ stats.pendingCount = Cardinality(pending)

\* a placeholder above a closed epoch with an included and an excluded
\* datapoint
C14_Witness ==
  /\ Len(Epochs) = 2
  /\ Epochs[1].datapoints = <<>>
  /\ buildEpochRenderStats(Epochs[2], operatorAddresses).includedCount = 1
  /\ buildEpochRenderStats(Epochs[2], operatorAddresses).excludedCount = 1

\* C15 (SpecClassify): of two epochs adjacent in the derived list that both
\* have a resolved closing marker, the older one's endBlock + 1 is the newer
\* one's startBlock.
C15_ClosedEpochsContiguous ==
  \A e \in 1..Len(Epochs) - 1 :
    (Epochs[e].refreshMarker # None /\ Epochs[e + 1].refreshMarker # None) =>
      /\ Epochs[e + 1].endBlock # None
      /\ Epochs[e].startBlock = Some(Epochs[e + 1].endBlock[1] + 1)

\* epochs 11 and 10 both closed, each by its own refresh, the datapoints below
\* the block of their marker
C15_Witness ==
  /\ Len(Epochs) = 3
  /\ Epochs[2].refreshMarker # None
  /\ Epochs[3].refreshMarker # None
  /\ Epochs[2].refreshMarker # Epochs[3].refreshMarker
  /\ Epochs[3].blockHeight < Epochs[3].refreshMarker[1].blockHeight

\* the derived epochs that have both a startBlock and an endBlock
Ranged == {e \in 1..Len(Epochs) : Epochs[e].startBlock # None /\ Epochs[e].endBlock # None}

Grouped == groupByEpoch(datapoints)

\* some datapoint of the sequence was spent by the transaction of a marker of
\* the cumulative marker set
SpentByMarker(dps) ==
  \E i \in 1..Len(dps) : \E k \in 1..Len(refreshMarkers) :
    /\ dps[i].spentTransactionId # Undefined
    /\ dps[i].spentTransactionId = refreshMarkers[k].txId

\* C17 (SpecClassify): the derived list starts with a placeholder exactly
\* when the newest epoch that has datapoints has a resolved closing marker;
\* the placeholder has the newest epochId + 1, no datapoints, startBlock at
\* the marker's blockHeight + 1 and no endBlock, blockSpan or marker.
C17_PlaceholderRule ==
  LET newestClosed == Grouped # <<>> /\ SpentByMarker(Grouped[1].datapoints)
      startsWithPlaceholder == Epochs # <<>> /\ Epochs[1].datapoints = <<>>
  IN  /\ newestClosed <=> startsWithPlaceholder
      /\ Len(Epochs) = Len(Grouped) + (IF newestClosed THEN 1 ELSE 0)
      /\ newestClosed =>
           /\ Epochs[2].epochId = Grouped[1].epochId
           /\ Epochs[2].refreshMarker # None
           /\ Epochs[1].epochId = Grouped[1].epochId + 1
           /\ Epochs[1].startBlock = Some(Epochs[2].refreshMarker[1].blockHeight + 1)
           /\ Epochs[1].endBlock = None
           /\ Epochs[1].blockSpan = None
           /\ Epochs[1].refreshMarker = None

\* a placeholder above two epochs with datapoints, after a second page
C17_Witness ==
  /\ currentPage > 0
  /\ Len(Epochs) = 3
  /\ Epochs[1].datapoints = <<>>
  /\ Epochs[1].startBlock # None

\* C18 (SpecRange): the derived epoch list, placeholder included, is strictly
\* descending by epochId.
C18_EpochsStrictlyDescending ==
  \A e \in 1..Len(Epochs) - 1 : Epochs[e].epochId > Epochs[e + 1].epochId

\* the four epochs of the chain under a placeholder
C18_Witness ==
  /\ Len(Epochs) = 5
  /\ Epochs[1].datapoints = <<>>

\* C19 (SpecRange): groupByEpoch partitions the cumulative datapoints: each
\* one is in exactly one epoch, the one of its epochId; no epoch is empty and
\* none holds anything else; an epoch's blockHeight is the greatest
\* blockHeight of its members.
C19_GroupsPartition ==
  /\ \A i \in 1..Len(datapoints) :
       LET places == {p \in {<<g, k>> : g \in 1..Len(Grouped), k \in 1..Len(datapoints)} :
                        /\ p[2] <= Len(Grouped[p[1]].datapoints)
                        /\ Grouped[p[1]].datapoints[p[2]] = datapoints[i]}
       IN  /\ Cardinality(places) = 1
           /\ \A p \in places : Grouped[p[1]].epochId = datapoints[i].epochId
  /\ \A g \in 1..Len(Grouped) :
       LET members == Grouped[g].datapoints
       IN  /\ members # <<>>
           /\ Range(members) \subseteq Range(datapoints)
           /\ \E k \in 1..Len(members) : members[k].blockHeight = Grouped[g].blockHeight
           /\ \A k \in 1..Len(members) : members[k].blockHeight <= Grouped[g].blockHeight

\* three epochs, one of them with two datapoints at different heights
C19_Witness ==
  /\ Len(Grouped) = 3
  /\ \E g \in 1..Len(Grouped) :
       /\ Len(Grouped[g].datapoints) = 2
       /\ Grouped[g].datapoints[1].blockHeight # Grouped[g].datapoints[2].blockHeight

\* C20 (SpecClassify): an epoch has at most one resolved marker; when it has
\* one, the marker is of the cumulative set and its txId is the
\* spentTransactionId of a datapoint of the epoch; and when a datapoint of the
\* epoch was spent by the transaction of a marker of the set, the epoch has a
\* resolved marker.
C20_MarkerLinkedByTxId ==
  \A e \in 1..Len(Epochs) :
    LET epoch == Epochs[e]
    IN  /\ Len(epoch.refreshMarker) <= 1
        /\ epoch.refreshMarker # None =>
             /\ epoch.refreshMarker[1] \in Range(refreshMarkers)
             /\ \E i \in 1..Len(epoch.datapoints) :
                  epoch.datapoints[i].spentTransactionId = epoch.refreshMarker[1].txId
        /\ SpentByMarker(epoch.datapoints) => epoch.refreshMarker # None

\* an epoch whose first datapoint was spent by a transaction no marker carries
\* and whose second one by the transaction of a loaded marker
C20_Witness ==
  \E e \in 1..Len(Epochs) :
    /\ Len(Epochs[e].datapoints) = 2
    /\ Epochs[e].datapoints[1].spentTransactionId # Undefined
    /\ ~SpentByMarker(<<Epochs[e].datapoints[1]>>)
    /\ SpentByMarker(<<Epochs[e].datapoints[2]>>)
    /\ Epochs[e].refreshMarker # None

\* C21 (SpecClassify): for every epoch with datapoints, startBlock is 1 + the
\* blockHeight of the closing marker of the next older epoch of the list and
\* is absent when there is no such epoch or it is unclosed; endBlock is the
\* blockHeight of the epoch's own closing marker, or its representative
\* blockHeight when unclosed; blockSpan is max(0, endBlock - startBlock + 1)
\* when startBlock is present and absent otherwise, never negative.
C21_BlockRangeRule ==
  \A e \in 1..Len(Epochs) :
    LET epoch == Epochs[e]
        olderClosed == e + 1 <= Len(Epochs) /\ Epochs[e + 1].refreshMarker # None
    IN  epoch.datapoints # <<>> =>
          /\ epoch.startBlock = (IF olderClosed
                                 THEN Some(Epochs[e + 1].refreshMarker[1].blockHeight + 1)
                                 ELSE None)
          /\ epoch.endBlock = Some(IF epoch.refreshMarker # None
                                   THEN epoch.refreshMarker[1].blockHeight
                                   ELSE epoch.blockHeight)
          /\ epoch.blockSpan = (IF epoch.startBlock # None
                                THEN Some(Max(0, epoch.endBlock[1] - epoch.startBlock[1] + 1))
                                ELSE None)
          /\ epoch.blockSpan # None => epoch.blockSpan[1] >= 0

\* an epoch whose closing marker lies below the marker of the next older
\* epoch, so that the span is the clamped one, above an epoch without a start
C21_Witness ==
  \E e \in 1..Len(Epochs) - 1 :
    /\ Epochs[e].datapoints # <<>>
    /\ Epochs[e].startBlock # None
    /\ Epochs[e].endBlock[1] + 1 < Epochs[e].startBlock[1]
    /\ Epochs[e].blockSpan = Some(0)
    /\ Epochs[e + 1].startBlock = None

\* the addresses reporting in an epoch
Reporters(epoch) == {epoch.datapoints[i].oracleAddress : i \in 1..Len(epoch.datapoints)}

\* the positions of the roster whose address has no datapoint in the epoch
AbsentEntries(epoch) ==
  {i \in 1..Len(operatorAddresses) : operatorAddresses[i] \notin Reporters(epoch)}

\* C22 (SpecStats): with a non-empty roster, the statistics computed for any
\* epoch have inactiveCount equal to the number of roster entries without a
\* datapoint in the epoch, activeOperators equal to the roster size minus
\* inactiveCount, and the two add up to the roster size.
C22_RosterCounts ==
  renders >= 1 /\ operatorAddresses # <<>> =>
    \A e \in 1..Len(Epochs) :
      /\ epochStats[e].inactiveCount = Cardinality(AbsentEntries(Epochs[e]))
      /\ epochStats[e].activeOperators =
           Len(operatorAddresses) - epochStats[e].inactiveCount
      /\ epochStats[e].activeOperators + epochStats[e].inactiveCount =
           Len(operatorAddresses)

\* roster [A, B, C], datapoints from A and B only: 2 active, 1 inactive (C)
C22_Witness ==
  /\ renders >= 1
  /\ operatorAddresses = <<"A", "B", "C">>
  /\ \E e \in 1..Len(Epochs) :
       /\ Reporters(Epochs[e]) = {"A", "B"}
       /\ AbsentEntries(Epochs[e]) = {3}
       /\ epochStats[e].activeOperators = 2
       /\ epochStats[e].inactiveCount = 1

\* C23 (SpecStats): with an empty roster the universe of an epoch is the
\* reporters seen in it: inactiveCount is 0, activeOperators is the number of
\* distinct reporter addresses, and no dot of the chart sequence is inactive.
C23_EmptyRosterUniverse ==
  renders >= 1 /\ operatorAddresses = <<>> =>
    \A e \in 1..Len(Epochs) :
      /\ epochStats[e].inactiveCount = 0
      /\ epochStats[e].activeOperators = Cardinality(Reporters(Epochs[e]))
      /\ \A k \in 1..Len(epochStats[e].chartDots) :
           epochStats[e].chartDots[k].type # "inactive"

C23_Witness ==
  /\ renders >= 1
  /\ operatorAddresses = <<>>
  /\ \E e \in 1..Len(Epochs) :
       /\ Cardinality(Reporters(Epochs[e])) = 2
       /\ Len(Epochs[e].datapoints) = 3
       /\ epochStats[e].activeOperators = 2
       /\ Len(epochStats[e].chartDots) = 3

\* the position of an address on the roster
RosterIndex(address) == CHOOSE i \in 1..Len(operatorAddresses) : operatorAddresses[i] = address

\* C24 (SpecStats): the roster having no address twice, the chart sequence of
\* an epoch holds exactly one inactive dot per roster entry without a
\* datapoint in the epoch and none for another address, exactly one datapoint
\* dot per datapoint of the epoch whoever reported it, and is ordered by
\* height ascending with an inactive dot at height 0, inactive before
\* datapoint dots at equal height, globalIndex ascending among datapoint dots
\* of equal height, and inactive dots in roster order.
C24_ChartSequence ==
  renders >= 1 =>
    \A e \in 1..Len(Epochs) :
      LET dots == epochStats[e].chartDots
          inactive == {k \in 1..Len(dots) : dots[k].type = "inactive"}
          plotted == {k \in 1..Len(dots) : dots[k].type = "datapoint"}
      IN  /\ \A i \in 1..Len(operatorAddresses) :
               Cardinality({k \in inactive : dots[k].operator = operatorAddresses[i]})
                 = (IF i \in AbsentEntries(Epochs[e]) THEN 1 ELSE 0)
          /\ \A k \in inactive : dots[k].operator \in Range(operatorAddresses)
          /\ \A d \in 1..Len(Epochs[e].datapoints) :
               Cardinality({k \in plotted : dots[k].datapoint = Epochs[e].datapoints[d]}) = 1
          /\ Cardinality(plotted) = Len(Epochs[e].datapoints)
          /\ \A k, l \in 1..Len(dots) :
               k < l =>
                 /\ getHeight(dots[k]) <= getHeight(dots[l])
                 /\ getHeight(dots[k]) = getHeight(dots[l]) =>
                      /\ ~(k \in plotted /\ l \in inactive)
                      /\ k \in plotted /\ l \in plotted =>
                           IndexOrMin(dots[k].datapoint) <= IndexOrMin(dots[l].datapoint)
                      /\ k \in inactive /\ l \in inactive =>
                           RosterIndex(dots[k].operator) < RosterIndex(dots[l].operator)

\* two inactive dots, then at the same height 0 a datapoint of a reporter
\* outside the roster, then two datapoints of one height told apart by index
C24_Witness ==
  /\ renders >= 1
  /\ \E e \in 1..Len(Epochs) :
       LET dots == epochStats[e].chartDots
       IN  /\ Len(dots) = 5
           /\ dots[1].type = "inactive" /\ dots[2].type = "inactive"
           /\ dots[3].type = "datapoint" /\ dots[3].datapoint.blockHeight = 0
           /\ dots[3].datapoint.oracleAddress \notin Range(operatorAddresses)
           /\ dots[4].datapoint.blockHeight = dots[5].datapoint.blockHeight
           /\ IndexOrMin(dots[4].datapoint) < IndexOrMin(dots[5].datapoint)

ResponseBoxes ==
  Range(nodeResponse.oracleBoxes.items) \cup Range(nodeResponse.datapointBoxes.items)

\* a box whose three registers are there and decode
Decodable(box) == box.R4 = "key" /\ box.R5 = "valid" /\ box.R6 = "valid"

BoxIds(records) == {records[i].boxId : i \in 1..Len(records)}

\* the refresh boxes of the response whose R4 does not decode
FailingMarkers ==
  {i \in 1..Len(nodeResponse.refreshBoxes.items) :
     nodeResponse.refreshBoxes.items[i].R4 \notin {"missing", "long"}}

\* C26 (SpecPage): when the decoding failures of a page are among its
\* datapoint and oracle boxes (a register R4/R5/R6 missing or not decodable),
\* fetchDatapointPage resolves with one datapoint for each box that decodes
\* and none for the others, and the load leaves the driver without error,
\* holding those datapoints.
C26_DatapointDecodeIsolated ==
  [][FailingMarkers = {} =>
       LET outcome == decodePage(selectedPoolId, nodeResponse)
           good == {box.boxId : box \in {b \in ResponseBoxes : Decodable(b)}}
       IN  /\ ~outcome.rejected
           /\ BoxIds(outcome.result.datapoints) = good
           /\ Len(outcome.result.datapoints) = Cardinality(good)
           /\ error' = Null
           /\ good \subseteq BoxIds(datapoints')
           /\ BoxIds(datapoints') \subseteq BoxIds(datapoints) \cup good]_vars

\* five datapoint boxes of which one does not decode have been loaded: four
\* datapoints, no error
C26_Witness ==
  /\ lastFetchedCount = PageBoxCount
  /\ Cardinality({i \in 1..PageBoxCount :
                    ~Decodable(nodeResponse.datapointBoxes.items[i])}) = 1
  /\ \A i \in 1..Len(nodeResponse.oracleBoxes.items) :
       ~Decodable(nodeResponse.oracleBoxes.items[i])
  /\ Len(datapoints) = 4
  /\ error = Null

\* C27 (SpecPage): when the R4 of exactly one refresh box of a page does not
\* decode, fetchDatapointPage still resolves with the datapoints of the page
\* and the other markers, and the load leaves the driver without error.
C27_MarkerDecodeIsolated ==
  [][Cardinality(FailingMarkers) = 1 =>
       LET items == nodeResponse.refreshBoxes.items
       IN  /\ ~decodePage(selectedPoolId, nodeResponse).rejected
           /\ error' = Null
           /\ {box.boxId : box \in {b \in ResponseBoxes : Decodable(b)}}
                \subseteq BoxIds(datapoints')
           /\ \A i \in 1..Len(items) :
                i \notin FailingMarkers => items[i].boxId \in BoxIds(refreshMarkers')]_vars

\* C28 (SpecAux): a failed roster request changes nothing but the roster,
\* which it empties, and a failed latest-value request nothing but the latest
\* value, which it sets to null: datapoints, markers, currentPage, isLoading
\* and error stay as they are; and a roster or value response to a request
\* made before the pool selection changed leaves roster and value alone.
C28_AuxiliaryIsolated ==
  [][\A r \in auxFetches :
       /\ OperatorsReject(r) =>
            /\ UNCHANGED <<datapoints, refreshMarkers, currentPage, isLoading, error>>
            /\ oraclePoolValue' = oraclePoolValue
            /\ operatorAddresses' \in {<<>>, operatorAddresses}
            /\ ~r.cancelled => operatorAddresses' = <<>>
       /\ ValueReject(r) =>
            /\ UNCHANGED <<datapoints, refreshMarkers, currentPage, isLoading, error>>
            /\ operatorAddresses' = operatorAddresses
            /\ oraclePoolValue' \in {None, oraclePoolValue}
            /\ ~r.cancelled => oraclePoolValue' = None
       /\ (r.poolChanged /\ (\/ OperatorsResolve(r) \/ OperatorsReject(r)
                             \/ ValueResolve(r) \/ ValueReject(r))) =>
            /\ operatorAddresses' = operatorAddresses
            /\ oraclePoolValue' = oraclePoolValue]_vars

\* pages are loaded without error, roster and value of the selected pool are
\* in, and a roster request and a value request made for the other pool are
\* still awaiting their response
C28_Witness ==
  /\ datapoints # <<>> /\ error = Null
  /\ operatorAddresses = RosterOf(selectedPoolId)
  /\ oraclePoolValue = Some(PoolValueOf(selectedPoolId))
  /\ \E r, v \in auxFetches :
       /\ r.kind = "operators" /\ r.poolChanged /\ r.pool # selectedPoolId
       /\ v.kind = "value" /\ v.poolChanged /\ v.pool # selectedPoolId
  /\ \E r \in auxFetches : r.kind = "value" /\ ~r.cancelled

\* C29 (Spec): once mounted there is one live poll loop, that of the selected
\* pool; a poll of it that completes, resolved or rejected, leaves exactly
\* its one timer armed; a poll of a cancelled loop that completes arms
\* nothing and ends that loop; and a pool switch cancels the live loop, its
\* timer with it, and starts the one loop of the new pool with a first poll.
C29_OnePollLoop ==
  /\ [](mounted => livePoll # None /\ livePoll[1].pool = selectedPoolId)
  /\ [][/\ ((\E height \in NodeHeights : PollResolve(height)) \/ PollReject) =>
             /\ livePoll' # None
             /\ livePoll'[1].phase = "waiting"
             /\ livePoll'[1].pool = livePoll[1].pool
             /\ stalePolls' = stalePolls
        /\ \A loop \in BagToSet(stalePolls) :
             ((\E height \in NodeHeights : StalePollResolve(loop, height))
                \/ StalePollReject(loop)) =>
               /\ stalePolls' = stalePolls (-) SetToBag({loop})
               /\ livePoll' = livePoll
        /\ selectedPoolId' # selectedPoolId =>
             /\ livePoll' = Some([pool |-> selectedPoolId', lastHeight |-> 0,
                                  phase |-> "polling"])
             /\ stalePolls' =
                  (IF livePoll[1].phase = "polling"
                   THEN stalePolls (+) SetToBag({[pool |-> livePoll[1].pool,
                                                  lastHeight |-> livePoll[1].lastHeight]})
                   ELSE stalePolls)]_vars

\* the loop of the new pool has completed a poll and waits for its timer
\* while a poll of the cancelled loop of the other pool is still in flight
C29_Witness ==
  /\ livePoll # None
  /\ livePoll[1].phase = "waiting"
  /\ livePoll[1].pool = selectedPoolId
  /\ \E loop \in BagToSet(stalePolls) : loop.pool # selectedPoolId

\* C30 (SpecMerge): merging an incoming datapoint or marker that has no
\* globalIndex never replaces the stored record of its boxId when that one
\* has a globalIndex, at whatever heights the two were recorded.
C30_UnindexedNeverReplaces ==
  /\ \A i \in 1..Len(datapoints) : \A incoming \in MergeDatapoints :
       (/\ incoming.boxId = datapoints[i].boxId
        /\ incoming.globalIndex = None
        /\ datapoints[i].globalIndex # None) =>
         StoredAt(setDatapoints(datapoints, <<incoming>>, FALSE), incoming.boxId)
           = datapoints[i]
  /\ \A i \in 1..Len(refreshMarkers) : \A incoming \in MergeMarkers :
       (/\ incoming.boxId = refreshMarkers[i].boxId
        /\ incoming.globalIndex = None
        /\ refreshMarkers[i].globalIndex # None) =>
         StoredAt(setRefreshMarkers(refreshMarkers, <<incoming>>, FALSE), incoming.boxId)
           = refreshMarkers[i]

\* C31 (SpecMerge): whatever pages have been merged or have replaced the
\* state, no two records of the cumulative datapoint list have the same boxId.
C31_DatapointBoxIdsUnique == DistinctBoxIds(datapoints)

\* both boxes are held after a second page that carried both of them
C31_Witness ==
  /\ currentPage = 2
  /\ lastFetchedCount = 2
  /\ Len(datapoints) = 2
  /\ datapoints[1].boxId # datapoints[2].boxId

\* a.blockHeight > b.blockHeight, or equal heights and a's index >= b's
OrderedDesc(a, b) ==
  \/ a.blockHeight > b.blockHeight
  \/ a.blockHeight = b.blockHeight /\ IndexOrMin(a) >= IndexOrMin(b)

SortedDesc(records) == \A i \in 1..Len(records) - 1 : OrderedDesc(records[i], records[i + 1])

\* C32 (SpecMerge): the cumulative datapoint list is in descending order of
\* (blockHeight, globalIndex), a missing globalIndex counting as the least.
C32_DatapointsSortedDesc == SortedDesc(datapoints)

\* two records of one height, the first with an index and the second without
C32_Witness ==
  /\ Len(datapoints) = 2
  /\ datapoints[1].blockHeight = datapoints[2].blockHeight
  /\ datapoints[1].globalIndex # None
  /\ datapoints[2].globalIndex = None
  /\ currentPage = 2

\* a refresh box as a page may bring it: either box, at either height, with
\* or without an index, from either transaction
MarkerSightings ==
  {Marker(b, t, h, g) : b \in {"r1", "r2"}, t \in {"TX1", "TX2"}, h \in {102, 103},
                        g \in {None, Some(1), Some(2)}}

\* C33 (SpecMerge): the cumulative marker list has one marker per boxId and
\* is in descending order of (blockHeight, globalIndex), and stays so when
\* one more marker is merged; of two occurrences of a boxId the merge keeps
\* the one of greater blockHeight, at equal heights the one of greater
\* globalIndex, and at equal height and index the stored one.
C33_MarkerMergeRule ==
  /\ DistinctBoxIds(refreshMarkers)
  /\ SortedDesc(refreshMarkers)
  /\ \A incoming \in MarkerSightings :
       LET merged == setRefreshMarkers(refreshMarkers, <<incoming>>, FALSE)
       IN  /\ DistinctBoxIds(merged)
           /\ SortedDesc(merged)
           /\ BoxIds(merged) = BoxIds(refreshMarkers) \cup {incoming.boxId}
           /\ \A i \in 1..Len(refreshMarkers) :
                LET stored == refreshMarkers[i]
                    kept == StoredAt(merged, stored.boxId)
                IN  IF incoming.boxId # stored.boxId THEN kept = stored
                    ELSE IF incoming.blockHeight # stored.blockHeight
                         THEN kept = (IF incoming.blockHeight > stored.blockHeight
                                      THEN incoming ELSE stored)
                    ELSE IF IndexOrMin(incoming) # IndexOrMin(stored)
                         THEN kept = (IF IndexOrMin(incoming) > IndexOrMin(stored)
                                      THEN incoming ELSE stored)
                    ELSE kept = stored

\* the refresh box is stored with its index after two pages
C33_Witness ==
  /\ currentPage = 2
  /\ Len(refreshMarkers) = 1
  /\ refreshMarkers[1].globalIndex = Some(1)

\* the refreshStatus values a derived list gives to the datapoint of a boxId
StatusIn(epochs, boxId) ==
  UNION {{epoch.datapoints[i].refreshStatus :
            i \in {k \in 1..Len(epoch.datapoints) : epoch.datapoints[k].boxId = boxId}} :
         epoch \in Range(epochs)}

\* a derivation that keeps the status an earlier derivation gave to a box
deriveEpochs_patched(previous, dps, mks) ==
  LET fresh == epochsWithStatus(dps, mks)
      keep(dp) == IF StatusIn(previous, dp.boxId) # {}
                    THEN [dp EXCEPT !.refreshStatus =
                            CHOOSE s \in StatusIn(previous, dp.boxId) : TRUE]
                    ELSE dp
  IN  [e \in 1..Len(fresh) |->
         [fresh[e] EXCEPT !.datapoints =
            [i \in 1..Len(fresh[e].datapoints) |-> keep(fresh[e].datapoints[i])]]]

\* the useMemo chain refreshTxMap / groupedEpochs / epochsWithStatus: its
\* dependencies are the arrays setDatapoints and setRefreshMarkers replace on
\* every merge, so each merge recomputes the list from them; the list of the
\* earlier render is not an input of the computation
deriveEpochs(previous, dps, mks) == epochsWithStatus(dps, mks)

\* the list exposed by the render that follows a step
ExposedAfter == deriveEpochs(Epochs, datapoints', refreshMarkers')

MarkerKnown(mks, txId) == \E k \in 1..Len(mks) : mks[k].txId = txId

\* a stored datapoint whose consuming transaction no marker carried before
\* the step and a marker carries after it, the datapoint staying stored
MarkerArrived(dp) ==
  /\ dp.spentTransactionId # Undefined
  /\ ~MarkerKnown(refreshMarkers, dp.spentTransactionId)
  /\ MarkerKnown(refreshMarkers', dp.spentTransactionId)
  /\ \E k \in 1..Len(datapoints') :
       /\ datapoints'[k].boxId = dp.boxId
       /\ datapoints'[k].epochId = dp.epochId
       /\ datapoints'[k].spentTransactionId = dp.spentTransactionId

\* the consuming transaction of the first datapoint of the epoch, in list
\* order, that a marker of the set carries
FirstMarkedTx(dps, mks, epochId) ==
  LET marked == SelectSeq(dps, LAMBDA d : /\ d.epochId = epochId
                                          /\ d.spentTransactionId # Undefined
                                          /\ MarkerKnown(mks, d.spentTransactionId))
  IN  marked[1].spentTransactionId

\* lists an earlier render may have exposed: none, or one box of the runs
\* derived while no marker was known
EarlierDerivations ==
  {<<>>} \cup {epochsWithStatus(<<dp>>, <<>>) : dp \in ClassifyDatapoints}

\* whatever list was exposed before, the derivation is the one made from the
\* cumulative datapoints and markers
DerivedFromStateAlone ==
  \A previous \in EarlierDerivations :
    deriveEpochs(previous, datapoints, refreshMarkers) = Epochs

\* C34 as stated (SpecClassify): the exposed list is the derivation from the
\* cumulative datapoints and markers alone, whatever was derived before, and a
\* datapoint that was 'excluded' while its consuming transaction had no known
\* marker is 'included' in the derivation after the merge that adds a marker
\* with that txId.
C34_ExcludedBecomesIncluded ==
  /\ []DerivedFromStateAlone
  /\ [][LET before == Epochs
            after == ExposedAfter
        IN  \A k \in 1..Len(datapoints) :
              (/\ MarkerArrived(datapoints[k])
               /\ StatusIn(before, datapoints[k].boxId) = {"excluded"})
                => StatusIn(after, datapoints[k].boxId) = {"included"}]_vars

\* C34 amended (SpecClassify): the exposed list is the derivation from the
\* cumulative datapoints and markers alone, whatever was derived before, and a
\* datapoint that was 'excluded' while its consuming transaction had no known
\* marker is, after the merge that adds a marker with that txId, 'included'
\* when that transaction is the one the epoch resolves to (the consuming
\* transaction of the epoch's first datapoint that a marker carries) and
\* 'excluded' otherwise.
C34_Rederived ==
  /\ []DerivedFromStateAlone
  /\ [][LET before == Epochs
            after == ExposedAfter
        IN  \A k \in 1..Len(datapoints) :
              (/\ MarkerArrived(datapoints[k])
               /\ StatusIn(before, datapoints[k].boxId) = {"excluded"})
                => StatusIn(after, datapoints[k].boxId) =
                     {IF FirstMarkedTx(datapoints', refreshMarkers', datapoints[k].epochId)
                           = datapoints[k].spentTransactionId
                        THEN "included" ELSE "excluded"}]_vars

\* after a second merge that brought no datapoint, an epoch of two datapoints
\* whose markers are both known: the first one's transaction closes the epoch
\* and the second one, spent by the other marked transaction, is 'excluded'
C34_Witness ==
  /\ currentPage = 1
  /\ lastFetchedCount = 0
  /\ Len(refreshMarkers) = 2
  /\ \E e \in 1..Len(Epochs) :
       /\ Len(Epochs[e].datapoints) = 2
       /\ Epochs[e].datapoints[1].refreshStatus = "included"
       /\ Epochs[e].datapoints[2].refreshStatus = "excluded"
       /\ Epochs[e].datapoints[2].spentTransactionId # Undefined
       /\ MarkerKnown(refreshMarkers, Epochs[e].datapoints[2].spentTransactionId)

\* C35 (Spec): isLoading is true whenever a page fetch started by loadPage
\* has not completed.
C35_LoadingWhileInFlight == fetches # EmptyBag => isLoading

\* the cumulative datapoints hold the datapoint the node serves on a page
HoldsPage(pool, page) ==
  \E i \in 1..Len(datapoints) : datapoints[i].boxId = NodeDatapoint(pool, page).boxId

\* C36 (Spec): whenever no page fetch is in flight, the cumulative state is
\* the merge of the pages 0..currentPage without a gap: it holds every
\* non-empty page up to currentPage, and it holds no page of a pool without
\* the pages before it.
C36_GapFreePrefix ==
  fetches = EmptyBag =>
    /\ \A page \in 0..currentPage :
         PageCount(page) > 0 /\ datapoints # <<>> => HoldsPage(selectedPoolId, page)
    /\ \A pool \in ORACLE_POOLS : \A page \in 1..MaxPage :
         HoldsPage(pool, page) => \A before \in 0..(page - 1) : HoldsPage(pool, before)

\* C37 (SpecRace): when the first-page loads issued by successive refresh()
\* calls have all completed and the last to complete succeeded, the
\* cumulative state is the response of the most recently issued load, the
\* one of the height refresh() was last called at.
C37_NewestRefreshWins ==
  (fetches = EmptyBag /\ error = Null /\ datapoints # <<>>) =>
    datapoints = RaceResult(latestNodeHeight[1]).datapoints

\* the boxIds of the records one family of the response decodes to
DecodedIds(source, items) == BoxIds(DecodedDatapoints(selectedPoolId, source, items))

\* C38 (SpecPage): a page fetchDatapointPage resolves with holds at most one
\* datapoint per boxId, and the record of a boxId that decodes from both the
\* oracle-box list and the datapoint-box list is the one of source
\* 'datapointBox'.
C38_PageDedupe ==
  LET outcome == decodePage(selectedPoolId, nodeResponse)
      both == DecodedIds("oracleBox", nodeResponse.oracleBoxes.items)
                \cap DecodedIds("datapointBox", nodeResponse.datapointBoxes.items)
  IN  ~outcome.rejected =>
        /\ DistinctBoxIds(outcome.result.datapoints)
        /\ BoxIds(outcome.result.datapoints) =
             DecodedIds("oracleBox", nodeResponse.oracleBoxes.items)
               \cup DecodedIds("datapointBox", nodeResponse.datapointBoxes.items)
        /\ \A i \in 1..Len(outcome.result.datapoints) :
             outcome.result.datapoints[i].boxId \in both =>
               outcome.result.datapoints[i].source = "datapointBox"

\* a loaded page whose response decodes one boxId from both lists, stored
\* with the source of the datapoint list
C38_Witness ==
  /\ totalTransactions # None
  /\ error = Null
  /\ \E i \in 1..Len(datapoints) :
       /\ datapoints[i].boxId \in DecodedIds("oracleBox", nodeResponse.oracleBoxes.items)
       /\ datapoints[i].boxId \in DecodedIds("datapointBox", nodeResponse.datapointBoxes.items)
       /\ datapoints[i].source = "datapointBox"

\* each request after the first asks for the offset of the one before it plus
\* the length of the page that one received, and the loop asks for nothing
\* after the response it returns with
OffsetsAdvanceByPage ==
  /\ unspentLoop.requests[1] = 0
  /\ \A k \in 2..Len(unspentLoop.requests) :
       unspentLoop.requests[k] = unspentLoop.requests[k - 1] + unspentLoop.pages[k - 1]
  /\ Len(unspentLoop.requests) =
       Len(unspentLoop.pages) + (IF unspentLoop.pc = "returned" THEN 0 ELSE 1)

\* the collected items are the first boxes of the source, each once
CollectedOnce ==
  /\ Len(unspentLoop.items) <= unspentSource.count
  /\ \A i \in 1..Len(unspentLoop.items) : unspentLoop.items[i] = i

\* the page just received is empty, the response is a bare array, or the
\* items collected number the reported total
StopReached(loop) ==
  \/ unspentSource.style = "array"
  \/ loop.pages[Len(loop.pages)] = 0
  \/ IF unspentSource.total = None THEN FALSE
     ELSE Len(loop.items) >= unspentSource.total[1]

\* C39 (SpecUnspentFair): against a node with a finite list of boxes, whose
\* requests are all answered or fail, fetchAllUnspentBoxesByTokenId ends; it
\* stops with the response after which a page is empty, the response is a
\* bare array or the collected items number the reported total; each request
\* after the first asks for the offset of the previous one plus the length of
\* the page it received, and no box is collected twice.
C39_UnspentLoopEnds ==
  /\ <>(unspentLoop.pc # "awaiting")
  /\ [](OffsetsAdvanceByPage /\ CollectedOnce)
  /\ [][(Len(unspentLoop'.pages) > Len(unspentLoop.pages) /\ StopReached(unspentLoop'))
          => unspentLoop'.pc = "returned"]_vars

\* the loop has returned the whole list of a node that serves pages shorter
\* than asked for, after three requests or more
C39_Witness ==
  /\ unspentLoop.pc = "returned"
  /\ Len(unspentLoop.requests) >= 3
  /\ unspentSource.cap < UnspentPageSize
  /\ unspentSource.total # None
  /\ Len(unspentLoop.items) = unspentSource.count
====
